---- MODULE Spec2Model ----
(***************************************************************************)
(* Streaming chat endpoint of the weather chatbot backend.                 *)
(*                                                                         *)
(* One POST /api/chat/stream request is followed from the view function    *)
(* (main.py stream_chat) through the response generator (generate) and the *)
(* provider handler's generator (ChatGPTStreamingHandler /                 *)
(* GeminiStreamingHandler .stream_chat, _handle_with_tools,                *)
(* _stream_weather_commentary) to the end of the event stream.  Each       *)
(* action is one step of that code: the view, a call of a collaborator     *)
(* (database, model provider, tool) or the emission of a frame.            *)
(***************************************************************************)
EXTENDS Integers, Sequences, FiniteSets, TLC

VARIABLES
    pc,            \* position of the request: view, generator segment, or end
    req,           \* JSON body of the request as received
    http,          \* HTTP answer of the view: status, error body, returning line
    handler,       \* handler object built by get_model: "none", "chatgpt", "gemini"
    message,       \* message after strip(), as passed to handler.stream_chat
    conversations, \* session ids that have a conversation row
    convCalls,     \* number of get_or_create_conversation calls of this request
    ctxState,      \* ConversationState held by conversation_context
    dbMessages,    \* message rows written by create_message
    frames,        \* frames delivered to the client, in order
    modelCalls,    \* provider calls attempted in this request
    response,      \* first model response: content, parts, tool calls
    k,             \* index of the tool call being handled
    curResult,     \* result of the tool execution being reported
    results,       \* tool results appended to the model conversation, in order
    arrived,       \* chunks of the commentary stream received so far
    prompted,      \* the commentary prompt was appended to the conversation
    tool,          \* one invocation of a weather tool: its inputs and its outcome
    dbToolCalls,   \* tool-call rows written by create_tool_call
    lastOp,        \* the ContextManager call made last: its name, branch and return
    appended,      \* deltas handed to append_response since the response began
    conversation_context, \* value of the context variable in each server thread
    threads,       \* each server thread: its position and what its request recorded
    dbEvaluations, \* evaluation rows written by create_evaluation
    evalRuns,      \* each background evaluation run: its position and its queue
    closing,       \* how close() of the response generators ended, once called
    dbConversations \* conversation rows with their attributes

\* the variables of the streaming request
streamVars == <<pc, req, http, handler, message, conversations, convCalls, ctxState,
                dbMessages, frames, modelCalls, response, k, curResult,
                results, arrived, prompted>>

\* the variables the streaming request leaves alone
otherVars == <<tool, dbToolCalls, lastOp, appended, conversation_context, threads,
               dbEvaluations, evalRuns, closing, dbConversations>>

vars == <<streamVars, otherVars>>

(***************************************************************************)
(* Bounds of the model.                                                    *)
(***************************************************************************)
MaxCalls == 2       \* most tool calls in one model response
MaxChunks == 2      \* most chunks in one commentary stream
MaxText == 2        \* most deltas appended to one response by direct calls
MaxRecords == 2     \* most tool-call records held by one ConversationState
MaxRows == 2        \* most message rows written by direct calls
MaxOps == 7         \* most direct calls of ContextManager methods in a row

(***************************************************************************)
(* Values.                                                                 *)
(***************************************************************************)
SP == " "

SeqsUpTo(S, n) == UNION {[1..m -> S] : m \in 0..n}

\* a JSON key that may be absent from the body: present says whether it is there
Absent == [present |-> FALSE, val |-> <<>>]
Str(s) == [present |-> TRUE, val |-> s]
\* the same for a key that holds an identifier
AbsentId == [present |-> FALSE, val |-> ""]

\* message strings a client may send
MessageStrings == {<<>>, <<SP>>, <<"h", "i">>, <<SP, "h", "i", SP>>}

\* texts a model may return
Texts == {<<>>, <<"a">>, <<"a", "b">>}
\* text parts of a Gemini candidate
TextParts == {<<>>, <<<<"a">>>>, <<<<"a">>, <<"b">>>>, <<<<"a", "b">>, <<"a">>>>}
\* text of one chunk of a streamed completion; <<>> is a chunk without content
ChunkTexts == {<<>>, <<"c">>, <<"d">>}

\* main.py:47, the identifiers the endpoint accepts
SupportedModels == {"gpt-5-nano", "gemini-2.0-flash-lite"}
\* identifiers a client may send
ModelIds == SupportedModels \cup {"gpt-4o", ""}

\* base.py:104-111, the tools _execute_tool dispatches on
KnownTools == {"get_current_weather", "get_weather_forecast"}
ToolNames == KnownTools \cup {"get_time"}

\* tools/weather.py:11 and :45, the keyword parameters of the two tools
ToolParams(name) ==
    IF name = "get_current_weather" THEN {"city", "units"} ELSE {"city", "days"}

ToolRequired(name) == {"city"}

(***************************************************************************)
(* Arguments of a tool call as the provider sends them.  json is how the   *)
(* argument string decodes: "invalid" (json.loads raises), "nonmap" (a     *)
(* JSON value that is not an object) or "map" (an object with the keys     *)
(* given).                                                                 *)
(***************************************************************************)
Map(ks) == [json |-> "map", keys |-> ks]
InvalidJson == [json |-> "invalid", keys |-> {}]
NonMapJson == [json |-> "nonmap", keys |-> {}]
NoArgs == [json |-> "none", keys |-> {}]

Call(name, args) == [name |-> name, args |-> args]

\* tool calls a model may request: well-formed ones, a missing and an
\* unexpected argument key, a name that is no tool
MapCalls ==
    {Call("get_current_weather", Map({"city"})),
     Call("get_current_weather", Map({})),
     Call("get_current_weather", Map({"city", "days"})),
     Call("get_weather_forecast", Map({"city", "days"})),
     Call("get_time", Map({"city"}))}

\* OpenAI sends the arguments as a string, which need not be a JSON object
StringCalls ==
    {Call("get_current_weather", InvalidJson),
     Call("get_weather_forecast", NonMapJson)}

\* chatgpt.py:58 decodes a string; gemini.py:59 receives a mapping
ToolCalls(h) == IF h = "chatgpt" THEN MapCalls \cup StringCalls ELSE MapCalls

\* outcome of the upstream weather API request made by a tool
Upstreams == {"ok", "status", "exception"}

(***************************************************************************)
(* Result dictionaries, given by their kind and their keys.                *)
(***************************************************************************)
NoResult == [kind |-> "none", fields |-> {}, available |-> {}, raised |-> FALSE]

Raised == [kind |-> "exception", fields |-> {}, available |-> {}, raised |-> TRUE]

\* what requests.get gives a tool: no response (the call raises) or a response
\* with a status code and a body.  The body is the complete payload, no JSON
\* at all, a payload without a field the tool reads, or a payload whose field
\* has a type the tool cannot compute with.
NoAnswer(why) == [answered |-> FALSE, why |-> why, status |-> 0, body |-> "none"]
Answer(status, body) == [answered |-> TRUE, why |-> "none", status |-> status, body |-> body]

UpstreamResponses ==
    {NoAnswer("connection_error"), NoAnswer("timeout"),
     Answer(404, "complete"), Answer(500, "not_json"),
     Answer(200, "complete"), Answer(200, "not_json"),
     Answer(200, "missing_field"), Answer(200, "wrong_type")}

\* values of the units argument of get_current_weather
UnitsValues == {"celsius", "fahrenheit", "kelvin"}

\* values of the days argument of get_weather_forecast: an integer, or a
\* value min() cannot compare with 5 (a string, null)
IntDays(n) == [int |-> TRUE, n |-> n]
NotAnInt == [int |-> FALSE, n |-> 0]
DaysValues == {IntDays(0), IntDays(3), IntDays(5), IntDays(9), NotAnInt}

OkResult(fs) == [kind |-> "ok", fields |-> fs, available |-> {}, raised |-> FALSE]
ErrorResult(code) ==
    [kind |-> code, fields |-> {"error", "error_code"}, available |-> {}, raised |-> FALSE]

\* tools/weather.py:19-39 and 53-104: the request, the status test and the
\* reading of the payload
ReadUpstream(upstream, fs) ==
    IF ~upstream.answered THEN Raised
    ELSE IF upstream.status # 200 THEN ErrorResult("api_error")
    ELSE IF upstream.body # "complete" THEN Raised
    ELSE OkResult(fs)

\* tools/weather.py:14-39, the try block of get_current_weather
get_current_weather_try(units, upstream) ==
    ReadUpstream(upstream, {"city", "country", "temperature", "description"})

\* tools/weather.py:48-104, the try block of get_weather_forecast;
\* max(1, min(days, 5)) raises TypeError for a value that is no number
get_weather_forecast_try(days, upstream) ==
    IF ~days.int THEN Raised
    ELSE ReadUpstream(upstream, {"city", "country", "forecast", "days_requested"})

\* mutant of get_current_weather: the except clause takes the exceptions of
\* the request only
get_current_weather_narrow_except(units, upstream) ==
    LET r == get_current_weather_try(units, upstream)
    IN  IF r.raised /\ ~upstream.answered THEN ErrorResult("unknown_error") ELSE r

\* tools/weather.py:11-42
get_current_weather(units, upstream) ==
    LET r == get_current_weather_try(units, upstream)
    IN  IF r.raised THEN ErrorResult("unknown_error") ELSE r

\* tools/weather.py:45-107
get_weather_forecast(days, upstream) ==
    LET r == get_weather_forecast_try(days, upstream)
    IN  IF r.raised THEN ErrorResult("unknown_error") ELSE r

\* the upstream outcomes followed in the streaming request
UpstreamOf(upstream) ==
    IF upstream = "ok" THEN Answer(200, "complete")
    ELSE IF upstream = "status" THEN Answer(404, "complete")
    ELSE NoAnswer("connection_error")

\* tools/weather.py:11-42 and 45-107 with the default units and days: the body
\* of a tool is one try block whose except clause returns an error dictionary,
\* so a transport error or a malformed payload of the upstream request ends in
\* that clause
WeatherTool(name, upstream) ==
    IF name = "get_current_weather"
    THEN get_current_weather("celsius", UpstreamOf(upstream))
    ELSE get_weather_forecast(IntDays(5), UpstreamOf(upstream))

\* the call f(**function_args) binds: a mapping whose keys are parameters of
\* the tool and include the required ones; otherwise the call raises TypeError
Binds(name, args) ==
    /\ args.json = "map"
    /\ args.keys \subseteq ToolParams(name)
    /\ ToolRequired(name) \subseteq args.keys

\* base.py:104-107, get_current_weather(**function_args) and
\* get_weather_forecast(**function_args)
CallTool(name, args, upstream) ==
    IF Binds(name, args) THEN WeatherTool(name, upstream) ELSE Raised

\* base.py:108-112, the else branch of the dispatch
UnknownFunction(name) ==
    [kind |-> "unknown_function",
     fields |-> {"error", "available_functions"},
     available |-> {"get_current_weather", "get_weather_forecast"},
     raised |-> FALSE]

\* base.py:113-114, the except clause of _execute_tool
ToolExecutionFailed(name, args) ==
    [kind |-> "exec_failed",
     fields |-> {"error", "function", "arguments"},
     available |-> {},
     raised |-> FALSE]

\* mutant of ExecuteTool: the dispatch calls whatever name it is given, and
\* the except clause answers for a name that is no tool
ExecuteTool_no_else(name, args, upstream) ==
    LET r == CallTool(name, args, upstream)
    IN  IF r.raised THEN ToolExecutionFailed(name, args) ELSE r

\* base.py:101-114
ExecuteTool(name, args, upstream) ==
    LET r == IF name = "get_current_weather"
             THEN CallTool(name, args, upstream)
             ELSE IF name = "get_weather_forecast"
             THEN CallTool(name, args, upstream)
             ELSE UnknownFunction(name)
    IN  IF r.raised THEN ToolExecutionFailed(name, args) ELSE r

(***************************************************************************)
(* Events and frames.                                                      *)
(***************************************************************************)
NoDelta == [null |-> FALSE, str |-> <<>>]

\* json.dumps of an optional string: None becomes null, a string itself
JsonString(v) == [null |-> ~v.present, str |-> v.val]

BlankEvent ==
    [type |-> "-", function_name |-> "-", arguments |-> NoArgs, data |-> NoResult,
     city |-> "-", delta |-> Absent, message |-> "-"]

\* base.py:89-91, _format_sse: the frame carries the JSON encoding of the event
FormatSSE(ev) ==
    IF ev.type = "text_delta"
    THEN [ev EXCEPT !.delta = JsonString(ev.delta)]
    ELSE [ev EXCEPT !.delta = NoDelta]

TextStart == [BlankEvent EXCEPT !.type = "text_start"]
TextDelta(v) == [BlankEvent EXCEPT !.type = "text_delta", !.delta = v]
ToolCallEvent(c) ==
    [BlankEvent EXCEPT !.type = "tool_call", !.function_name = c.name, !.arguments = c.args]
\* function_args.get("city", "Unknown")
CityOf(args) == IF "city" \in args.keys THEN "Paris" ELSE "Unknown"
WeatherData(res, args) ==
    [BlankEvent EXCEPT !.type = "weather_data", !.data = res, !.city = CityOf(args)]
ErrorEvent(prefix) == [BlankEvent EXCEPT !.type = "error", !.message = prefix]
Done == [BlankEvent EXCEPT !.type = "done"]

(***************************************************************************)
(* str.strip(): leading and trailing whitespace removed.                   *)
(***************************************************************************)
RECURSIVE LStrip(_)
LStrip(s) == IF s # <<>> /\ Head(s) = SP THEN LStrip(Tail(s)) ELSE s

RECURSIVE RStrip(_)
RStrip(s) ==
    IF s # <<>> /\ s[Len(s)] = SP THEN RStrip(SubSeq(s, 1, Len(s) - 1)) ELSE s

\* mutant of Strip: the message is taken as sent
Strip_missing(s) == s

Strip(s) == RStrip(LStrip(s))

\* "".join(texts)
RECURSIVE Join(_)
Join(ts) == IF ts = <<>> THEN <<>> ELSE Head(ts) \o Join(Tail(ts))

(***************************************************************************)
(* Requests.                                                               *)
(***************************************************************************)
\* request.get_json(): no JSON object, or an object with optional keys
NoBody == [body |-> FALSE, message |-> Absent, model |-> AbsentId, session_id |-> AbsentId]

Bodies ==
    [body : {TRUE},
     message : {Absent} \cup {Str(m) : m \in MessageStrings},
     model : {AbsentId} \cup {Str(m) : m \in ModelIds},
     session_id : {AbsentId, Str("s1")}]

Requests == {NoBody} \cup Bodies

\* dict.get(key, default)
Get(field, default) == IF field.present THEN field.val ELSE default

\* `not data`: None or an empty JSON object
EmptyData(r) ==
    \/ ~r.body
    \/ (~r.message.present /\ ~r.model.present /\ ~r.session_id.present)

\* mutant of get_model: the second branch is lost
get_model_one_branch(model_name) ==
    IF model_name \in {"gpt-5-nano"} THEN "chatgpt" ELSE "none"

\* models/__init__.py:8-15
get_model(model_name) ==
    IF model_name \in {"gpt-5-nano"} THEN "chatgpt"
    ELSE IF model_name \in {"gemini-2.0-flash-lite"} THEN "gemini"
    ELSE "none"

\* context/manager.py:115-119: the pending slot, empty or holding a call
NoPending == [function_name |-> "-", arguments |-> NoArgs]
Pending(name, args) == [function_name |-> name, arguments |-> args]

\* init: conversation_context holds a state (FALSE: it holds None).  An id of 0
\* and a response_start_time of 0 stand for None.
NoState ==
    [init |-> FALSE, session_id |-> "-", conversation_id |-> 0, model_name |-> "-",
     current_user_message_id |-> 0, current_assistant_message_id |-> 0,
     response_content |-> <<>>, response_start_time |-> 0,
     tool_calls |-> <<>>, pending_tool_call |-> NoPending]

NoHttp == [status |-> 0, error |-> FALSE, line |-> 0]
\* received: the first model call has returned this response
NoResponse == [received |-> FALSE, content |-> Absent, parts |-> <<>>, tool_calls |-> <<>>]

(***************************************************************************)
(* Initial state: the server waits for a request; the database holds the   *)
(* conversation of an earlier request of session "s1".                     *)
(***************************************************************************)
RequestIdle ==
    /\ pc = "idle"
    /\ req = NoBody
    /\ http = NoHttp
    /\ handler = "none"
    /\ message = <<>>
    /\ convCalls = 0
    /\ ctxState = NoState
    /\ frames = <<>>
    /\ modelCalls = 0
    /\ response = NoResponse
    /\ k = 0
    /\ curResult = NoResult
    /\ results = <<>>
    /\ arrived = <<>>
    /\ prompted = FALSE

StreamIdle ==
    /\ RequestIdle
    /\ conversations = <<"s1">>
    /\ dbMessages = <<>>

\* no tool was invoked outside a request
NoTool == [name |-> "none", units |-> "celsius", days |-> IntDays(5),
           upstream |-> NoAnswer("none"), called |-> FALSE, result |-> NoResult]

\* main.py:368, app.run(threaded=True): the threads that serve requests
Threads == {1, 2}

\* a thread between requests: pc is its position in start_conversation, sid the
\* session id of its request, last and ret the outcome of its
\* start_conversation, and deltas, records and pending what its request handed
\* to the ContextManager since
IdleThread ==
    [pc |-> "ready", sid |-> "-", last |-> "none", ret |-> 0,
     deltas |-> <<>>, records |-> <<>>, pending |-> NoPending]

\* main.py:208-227: background evaluation runs that may overlap
Runs == {1, 2}

\* outcome of the evaluate_message call a run made last: the message, what the
\* pre-check found, whether a row was stored, what was returned
NoEvaluation == [id |-> 0, evaluated |-> FALSE, stored |-> FALSE, ret |-> "-"]

\* a run that was not started: pc is its position, limit the limit it was
\* started with, queue the message ids it still has to evaluate
IdleRun == [pc |-> "idle", limit |-> 0, queue |-> <<>>, last |-> NoEvaluation]

\* the server has not closed the response iterable
NotClosed == [at |-> "none", stream_chat |-> "open", generate |-> "open"]

\* database/models.py:11-19, a row of the conversations table
ConversationRow(sid, ip, agent, now) ==
    [session_id |-> sid, user_ip |-> ip, user_agent |-> agent, created_at |-> now,
     last_activity |-> now]

\* the conversation of the earlier request of session "s1", with its attributes
StoredConversations == <<ConversationRow("s1", "ip1", "agent1", 0)>>

\* no ContextManager call was made yet
NoOp == [op |-> "none", branch |-> "none", ret |-> 0, n |-> 0]

Init ==
    /\ StreamIdle
    /\ tool = NoTool
    /\ dbToolCalls = <<>>
    /\ lastOp = NoOp
    /\ appended = <<>>
    /\ conversation_context = [t \in Threads |-> NoState]
    /\ threads = [t \in Threads |-> IdleThread]
    /\ dbEvaluations = <<>>
    /\ evalRuns = [r \in Runs |-> IdleRun]
    /\ closing = NotClosed
    /\ dbConversations = StoredConversations

\* the variables of the generator, untouched by the view
genVars == <<dbMessages, frames, modelCalls, response, k, curResult, results,
             arrived, prompted>>

\* main.py:38, 45, 48, 56, 82: a JSON answer without a stream
Respond(r, status, line) ==
    /\ pc' = "responded"
    /\ req' = r
    /\ http' = [status |-> status, error |-> TRUE, line |-> line]

\* database/models.py:236-252: the index of the row of session sid, or 0
RECURSIVE FindConversation(_, _, _)
FindConversation(rows, sid, i) ==
    IF i > Len(rows) THEN 0
    ELSE IF rows[i] = sid THEN i
    ELSE FindConversation(rows, sid, i + 1)

\* main.py:33-82, the view of POST /api/chat/stream.  dbOk: the database
\* answers get_or_create_conversation.
stream_chat(r, dbOk) ==
    /\ pc = "idle"
    /\ IF EmptyData(r)
       THEN /\ Respond(r, 400, 38)
            /\ UNCHANGED <<handler, message, conversations, convCalls, ctxState>>
       ELSE LET msg == Strip(Get(r.message, <<>>))
                model == Get(r.model, "gpt-5-nano")
                sid == IF r.session_id.present /\ r.session_id.val # ""
                       THEN r.session_id.val ELSE "uuid"
                found == FindConversation(conversations, sid, 1)
            IN  IF msg = <<>>
                THEN /\ Respond(r, 400, 45)
                     /\ UNCHANGED <<handler, message, conversations, convCalls, ctxState>>
                ELSE IF model \notin SupportedModels
                THEN /\ Respond(r, 400, 48)
                     /\ UNCHANGED <<handler, message, conversations, convCalls, ctxState>>
                ELSE IF get_model(model) = "none"
                THEN /\ Respond(r, 400, 56)
                     /\ handler' = get_model(model)
                     /\ UNCHANGED <<message, conversations, convCalls, ctxState>>
                ELSE IF ~dbOk
                THEN \* start_conversation raises: main.py:81-82
                     /\ Respond(r, 500, 82)
                     /\ handler' = get_model(model)
                     /\ convCalls' = convCalls + 1
                     /\ UNCHANGED <<message, conversations, ctxState>>
                ELSE \* context/manager.py:65-78, start_conversation
                     /\ handler' = get_model(model)
                     /\ message' = msg
                     /\ convCalls' = convCalls + 1
                     /\ conversations' = IF found = 0 THEN Append(conversations, sid)
                                         ELSE conversations
                     /\ ctxState' = [NoState EXCEPT
                                       !.init = TRUE,
                                       !.session_id = sid,
                                       !.conversation_id =
                                           IF found = 0 THEN Len(conversations) + 1 ELSE found,
                                       !.model_name = model]
                     /\ pc' = "generate"
                     \* data is a local of the view: generate closes over
                     \* handler and message only
                     /\ req' = NoBody
                     /\ http' = [status |-> 200, error |-> FALSE, line |-> 69]
    /\ UNCHANGED genVars
    /\ UNCHANGED otherVars

(***************************************************************************)
(* The generator.  Emit hands one frame to the client.                     *)
(***************************************************************************)
Emit(ev) == frames' = Append(frames, FormatSSE(ev))

\* responses of the first, non-streamed model call.  A ChatGPT message has an
\* optional content and a list of tool calls; a Gemini candidate has parts,
\* text parts and function-call parts.
Responses(h) ==
    IF h = "chatgpt"
    THEN [received : {TRUE}, content : {Absent} \cup {Str(t) : t \in Texts},
          parts : {<<>>}, tool_calls : {<<>>}]
         \cup [received : {TRUE}, content : {Absent}, parts : {<<>>},
               tool_calls : SeqsUpTo(ToolCalls(h), MaxCalls) \ {<<>>}]
    ELSE [received : {TRUE}, content : {Absent}, parts : TextParts, tool_calls : {<<>>}]
         \cup [received : {TRUE}, content : {Absent}, parts : {<<>>},
               tool_calls : SeqsUpTo(ToolCalls(h), MaxCalls) \ {<<>>}]

ProviderError(h) == IF h = "chatgpt" THEN "ChatGPT error" ELSE "Gemini error"

\* outcomes of a write to the database: done, refused, or failed after the
\* row was committed (database/models.py:269-275)
DbOutcomes == {"ok", "error", "error_after_commit"}

\* database/models.py:254-279, create_message: the row, when it is committed
MessageRow(conv, role, content) ==
    [conversation_id |-> conv, role |-> role, content |-> content]

\* mutant of set_user_message: the message id is made up and no row is written
set_user_message_unsaved(state, rows, content, db) ==
    IF ~state.init
    THEN [raised |-> TRUE, state |-> state, rows |-> rows]
    ELSE [raised |-> FALSE,
          state |-> [state EXCEPT !.current_user_message_id = Len(rows) + 1],
          rows |-> rows]

\* context/manager.py:82-95, ContextManager.set_user_message: the state held by
\* the context variable and the message rows after the call, and whether the
\* call raised (no state, or create_message failed)
set_user_message(state, rows, content, db) ==
    IF ~state.init
    THEN [raised |-> TRUE, state |-> state, rows |-> rows]
    ELSE LET written == IF db = "error" THEN rows
                        ELSE Append(rows, MessageRow(state.conversation_id, "user", content))
         IN  IF db = "ok"
             THEN [raised |-> FALSE,
                   state |-> [state EXCEPT !.current_user_message_id = Len(written)],
                   rows |-> written]
             ELSE [raised |-> TRUE, state |-> state, rows |-> written]

(***************************************************************************)
(* ContextManager (context/manager.py) as functions of the state held by   *)
(* conversation_context, and DatabaseManager writes as functions of the    *)
(* rows.                                                                   *)
(***************************************************************************)
\* context/manager.py:52-57, _get_state raises when the variable holds None
NoStateRaises(state) == ~state.init

\* context/manager.py:10-40, ConversationState() with its defaults: a generated
\* session id and no conversation id
BareState == [NoState EXCEPT !.init = TRUE, !.session_id = "uuid"]

\* context/manager.py:65-78 with database/models.py:236-252: look the session
\* up, insert it when missing, set a fresh state
start_conversation(convs, sid, model) ==
    LET found == FindConversation(convs, sid, 1)
    IN  [convs |-> IF found = 0 THEN Append(convs, sid) ELSE convs,
         state |-> [NoState EXCEPT
                      !.init = TRUE,
                      !.session_id = sid,
                      !.conversation_id = IF found = 0 THEN Len(convs) + 1 ELSE found,
                      !.model_name = model]]

\* context/manager.py:99-105
start_assistant_response(state) ==
    [state EXCEPT !.response_content = <<>>, !.response_start_time = 1]

\* mutant of append_response: the delta replaces the text
append_response_overwrites(state, delta) ==
    [state EXCEPT !.response_content = delta]

\* context/manager.py:107-111
append_response(state, delta) ==
    [state EXCEPT !.response_content = @ \o delta]

\* context/manager.py:115-119
set_pending_tool_call(state, name, args) ==
    [state EXCEPT !.pending_tool_call = Pending(name, args)]

\* mutant of ToolCallRecord: the record is written as a success whatever the
\* error message
ToolCallRecord_always_success(p, result, error_message) ==
    [function_name |-> p.function_name,
     arguments |-> p.arguments,
     result |-> result,
     success |-> TRUE,
     error_message |-> error_message]

\* context/manager.py:126-135, the record built from the pending call
ToolCallRecord(p, result, error_message) ==
    [function_name |-> p.function_name,
     arguments |-> p.arguments,
     result |-> result,
     success |-> ~error_message.present,
     error_message |-> error_message]

\* mutant of resolve_pending_tool_call: the test of the pending slot is left out
resolve_pending_tool_call_unguarded(state, result, error_message) ==
    [state EXCEPT
       !.tool_calls = Append(@, ToolCallRecord(state.pending_tool_call, result,
                                               error_message)),
       !.pending_tool_call = NoPending]

\* context/manager.py:121-138
resolve_pending_tool_call(state, result, error_message) ==
    IF state.pending_tool_call = NoPending
    THEN state
    ELSE [state EXCEPT
            !.tool_calls = Append(@, ToolCallRecord(state.pending_tool_call, result,
                                                    error_message)),
            !.pending_tool_call = NoPending]

\* database/models.py:254-279, create_message for the assistant's turn
AssistantRow(state, error_occurred) ==
    [conversation_id |-> state.conversation_id, role |-> "assistant",
     content |-> state.response_content, model_name |-> state.model_name,
     error_occurred |-> error_occurred]

\* database/models.py:281-299, create_tool_call(message_id, **tool_call)
ToolCallRow(id, rec) ==
    [message_id |-> id, function_name |-> rec.function_name,
     arguments |-> rec.arguments, result |-> rec.result,
     success |-> rec.success, error_message |-> rec.error_message]

\* context/manager.py:161-162: the rows of the first n records of the list
ToolCallRows(id, recs, n) == [i \in 1..n |-> ToolCallRow(id, recs[i])]

Finalized(raised, branch, ret, state, rows, tcRows) ==
    [raised |-> raised, branch |-> branch, ret |-> ret, state |-> state,
     rows |-> rows, tcRows |-> tcRows]

\* mutant of finalize_assistant_response: the test of the conversation id is
\* left out
finalize_assistant_response_unbound(state, rows, tcRows, error_occurred, db, failAt) ==
    LET id == Len(rows) + 1
        written == Append(rows, AssistantRow(state, error_occurred))
    IN  Finalized(FALSE, "persisted", id,
                  [state EXCEPT !.current_assistant_message_id = id, !.tool_calls = <<>>],
                  written,
                  tcRows \o ToolCallRows(id, state.tool_calls, Len(state.tool_calls)))

\* mutant of finalize_assistant_response: a response that has no start time is
\* persisted all the same
finalize_assistant_response_untimed(state, rows, tcRows, error_occurred, db, failAt) ==
    IF state.conversation_id = 0
    THEN Finalized(FALSE, "unbound", 0, state, rows, tcRows)
    ELSE finalize_assistant_response_unbound(state, rows, tcRows, error_occurred, db,
                                             failAt)

\* mutant of finalize_assistant_response: the tool-call list is not emptied
finalize_assistant_response_keeps_list(state, rows, tcRows, error_occurred, db, failAt) ==
    IF state.conversation_id = 0
    THEN Finalized(FALSE, "unbound", 0, state, rows, tcRows)
    ELSE IF state.response_start_time = 0
    THEN Finalized(TRUE, "no_start_time", 0, state, rows, tcRows)
    ELSE IF db = "error"
    THEN Finalized(TRUE, "message_refused", 0, state, rows, tcRows)
    ELSE LET id == Len(rows) + 1
             written == Append(rows, AssistantRow(state, error_occurred))
             n == Len(state.tool_calls)
             s1 == [state EXCEPT !.current_assistant_message_id = id]
         IN  IF db = "error_after_commit"
             THEN Finalized(TRUE, "message_failed", 0, state, written, tcRows)
             ELSE IF failAt \in 1..n
             THEN Finalized(TRUE, "tool_call_failed", 0, s1, written,
                            tcRows \o ToolCallRows(id, state.tool_calls, failAt - 1))
             ELSE Finalized(FALSE, "persisted", id, s1, written,
                            tcRows \o ToolCallRows(id, state.tool_calls, n))

\* context/manager.py:142-166.  db: the outcome of create_message; failAt: the
\* index of the create_tool_call that fails (0: none).  Returns the state and
\* the rows after the call, the id returned (0: None) and whether it raised.
finalize_assistant_response(state, rows, tcRows, error_occurred, db, failAt) ==
    IF state.conversation_id = 0
    THEN Finalized(FALSE, "unbound", 0, state, rows, tcRows)
    ELSE IF state.response_start_time = 0
    THEN \* time.time() - None raises TypeError
         Finalized(TRUE, "no_start_time", 0, state, rows, tcRows)
    ELSE IF db = "error"
    THEN Finalized(TRUE, "message_refused", 0, state, rows, tcRows)
    ELSE LET id == Len(rows) + 1
             written == Append(rows, AssistantRow(state, error_occurred))
             n == Len(state.tool_calls)
             s1 == [state EXCEPT !.current_assistant_message_id = id]
         IN  IF db = "error_after_commit"
             THEN Finalized(TRUE, "message_failed", 0, state, written, tcRows)
             ELSE IF failAt \in 1..n
             THEN Finalized(TRUE, "tool_call_failed", 0, s1, written,
                            tcRows \o ToolCallRows(id, state.tool_calls, failAt - 1))
             ELSE Finalized(FALSE, "persisted", id,
                            [s1 EXCEPT !.tool_calls = <<>>], written,
                            tcRows \o ToolCallRows(id, state.tool_calls, n))

\* ContextAwareModalStreamingHandler.set_user_message, called at chatgpt.py:22
\* and gemini.py:20: hands the message to the ContextManager
handler_set_user_message(state, rows, content, db) ==
    set_user_message(state, rows, content, db)

\* main.py:61-67 with chatgpt.py:18-24 / gemini.py:17-22: the first pull runs
\* set_model_name and set_user_message, which are outside the handler's try
generate_start(db) ==
    /\ pc = "generate"
    /\ LET r == handler_set_user_message(ctxState, dbMessages, message, db)
       IN  /\ dbMessages' = r.rows
           /\ ctxState' = r.state
           /\ IF ~r.raised
              THEN /\ pc' = "first_turn"
                   /\ UNCHANGED frames
              ELSE \* the exception leaves stream_chat; generate's except clause
                   /\ Emit(ErrorEvent("Streaming error"))
                   /\ pc' = "generate_failed"
    /\ UNCHANGED otherVars
    /\ UNCHANGED <<req, http, handler, message, conversations, convCalls,
                   modelCalls, response, k, curResult, results, arrived, prompted>>

\* the text of the plain-text answer: chatgpt.py:45 message.content,
\* gemini.py:36 the joined text parts
PlainText(h, resp) == IF h = "chatgpt" THEN resp.content ELSE Str(Join(resp.parts))

\* `if message.tool_calls:` (chatgpt.py:41), has_function_calls (gemini.py:29-33)
HasToolCalls(resp) == resp.tool_calls # <<>>

\* chatgpt.py:26-44 / gemini.py:24-37: the first model call and the branch
first_turn(ok, resp) ==
    /\ pc = "first_turn"
    /\ modelCalls' = modelCalls + 1
    /\ IF ~ok
       THEN /\ Emit(ErrorEvent(ProviderError(handler)))
            /\ pc' = "finally"
            /\ UNCHANGED <<response, k>>
       ELSE /\ response' = resp
            /\ IF HasToolCalls(resp)
               THEN /\ pc' = "tool_loop"
                    /\ k' = 1
                    /\ UNCHANGED frames
               ELSE /\ Emit(TextStart)
                    /\ pc' = "plain_text"
                    /\ UNCHANGED k
    /\ UNCHANGED otherVars
    /\ UNCHANGED <<req, http, handler, message, conversations, convCalls, ctxState,
                   dbMessages, curResult, results, arrived, prompted>>

\* mutant of plain_text_delta: the commentary is requested after the plain
\* text as well
plain_text_delta_then_commentary ==
    /\ pc = "plain_text"
    /\ Emit(TextDelta(PlainText(handler, response)))
    /\ pc' = "commentary_call"
    /\ UNCHANGED otherVars
    /\ UNCHANGED <<req, http, handler, message, conversations, convCalls, ctxState,
                   dbMessages, modelCalls, response, k, curResult, results, arrived,
                   prompted>>

\* chatgpt.py:45 / gemini.py:38
plain_text_delta ==
    /\ pc = "plain_text"
    /\ Emit(TextDelta(PlainText(handler, response)))
    /\ pc' = "finally"
    /\ UNCHANGED otherVars
    /\ UNCHANGED <<req, http, handler, message, conversations, convCalls, ctxState,
                   dbMessages, modelCalls, response, k, curResult, results, arrived,
                   prompted>>

\* mutant of handle_with_tools_announce: the calls are taken from the end of
\* the list
handle_with_tools_announce_reversed ==
    /\ pc = "tool_loop"
    /\ LET c == response.tool_calls[Len(response.tool_calls) + 1 - k]
       IN  IF c.args.json = "invalid"
           THEN /\ Emit(ErrorEvent(ProviderError(handler)))
                /\ pc' = "finally"
           ELSE /\ Emit(ToolCallEvent(c))
                /\ pc' = "tool_exec"
    /\ UNCHANGED otherVars
    /\ UNCHANGED <<req, http, handler, message, conversations, convCalls, ctxState,
                   dbMessages, modelCalls, response, k, curResult, results, arrived,
                   prompted>>

\* chatgpt.py:57-62 / gemini.py:57-62: decode the arguments, announce the call
handle_with_tools_announce ==
    /\ pc = "tool_loop"
    /\ LET c == response.tool_calls[k]
       IN  IF c.args.json = "invalid"
           THEN \* json.loads raises; caught at chatgpt.py:47
                /\ Emit(ErrorEvent(ProviderError(handler)))
                /\ pc' = "finally"
           ELSE /\ Emit(ToolCallEvent(c))
                /\ pc' = "tool_exec"
    /\ UNCHANGED otherVars
    /\ UNCHANGED <<req, http, handler, message, conversations, convCalls, ctxState,
                   dbMessages, modelCalls, response, k, curResult, results, arrived,
                   prompted>>

\* chatgpt.py:64-77 / gemini.py:64-76: execute the tool, send its result
handle_with_tools_execute(upstream) ==
    /\ pc = "tool_exec"
    /\ LET c == response.tool_calls[k]
           res == ExecuteTool(c.name, c.args, upstream)
       IN  /\ curResult' = res
           /\ IF c.args.json # "map"
              THEN \* function_args.get raises AttributeError
                   /\ Emit(ErrorEvent(ProviderError(handler)))
                   /\ pc' = "finally"
              ELSE /\ Emit(WeatherData(res, c.args))
                   /\ pc' = "tool_append"
    /\ UNCHANGED otherVars
    /\ UNCHANGED <<req, http, handler, message, conversations, convCalls, ctxState,
                   dbMessages, modelCalls, response, k, results, arrived, prompted>>

\* mutant of handle_with_tools_append: a result that reports an error ends the
\* tool loop
handle_with_tools_append_aborts ==
    /\ pc = "tool_append"
    /\ results' = Append(results, curResult)
    /\ k' = k + 1
    /\ pc' = IF "error" \in curResult.fields THEN "finally"
             ELSE IF k + 1 <= Len(response.tool_calls) THEN "tool_loop"
             ELSE "commentary"
    /\ UNCHANGED otherVars
    /\ UNCHANGED <<req, http, handler, message, conversations, convCalls, ctxState,
                   dbMessages, frames, modelCalls, response, curResult, arrived,
                   prompted>>

\* mutant of handle_with_tools_append: the commentary is requested as soon as
\* one result is in, whatever calls are left
handle_with_tools_append_hurries ==
    /\ pc = "tool_append"
    /\ results' = Append(results, curResult)
    /\ k' = k + 1
    /\ pc' = "commentary"
    /\ UNCHANGED otherVars
    /\ UNCHANGED <<req, http, handler, message, conversations, convCalls, ctxState,
                   dbMessages, frames, modelCalls, response, curResult, arrived,
                   prompted>>

\* chatgpt.py:79-82 / gemini.py:78-84: hand the result to the model
\* conversation, go to the next call or to the commentary
handle_with_tools_append ==
    /\ pc = "tool_append"
    /\ results' = Append(results, curResult)
    /\ k' = k + 1
    /\ pc' = IF k + 1 <= Len(response.tool_calls) THEN "tool_loop"
             ELSE IF handler = "gemini" /\ results' = <<>> THEN "finally"
             ELSE "commentary"
    /\ UNCHANGED otherVars
    /\ UNCHANGED <<req, http, handler, message, conversations, convCalls, ctxState,
                   dbMessages, frames, modelCalls, response, curResult, arrived,
                   prompted>>

\* mutant of stream_weather_commentary_start: the text_start signal is left out
stream_weather_commentary_start_silent ==
    /\ pc = "commentary"
    /\ prompted' = TRUE
    /\ pc' = "commentary_call"
    /\ UNCHANGED otherVars
    /\ UNCHANGED <<req, http, handler, message, conversations, convCalls, ctxState,
                   dbMessages, frames, modelCalls, response, k, curResult, results,
                   arrived>>

\* chatgpt.py:86-92 / gemini.py:88-94
stream_weather_commentary_start ==
    /\ pc = "commentary"
    /\ prompted' = TRUE
    /\ Emit(TextStart)
    /\ pc' = "commentary_call"
    /\ UNCHANGED otherVars
    /\ UNCHANGED <<req, http, handler, message, conversations, convCalls, ctxState,
                   dbMessages, modelCalls, response, k, curResult, results, arrived>>

\* chatgpt.py:94 / gemini.py:96: the streaming model call
stream_weather_commentary_call(ok) ==
    /\ pc = "commentary_call"
    /\ modelCalls' = modelCalls + 1
    /\ IF ok
       THEN /\ pc' = "commentary_stream"
            /\ UNCHANGED frames
       ELSE /\ Emit(ErrorEvent("Commentary streaming error"))
            /\ pc' = "finally"
    /\ UNCHANGED otherVars
    /\ UNCHANGED <<req, http, handler, message, conversations, convCalls, ctxState,
                   dbMessages, response, k, curResult, results, arrived, prompted>>

\* mutant of stream_weather_commentary_chunk: the except clause sits inside the
\* loop, so the loop goes on after an error
stream_weather_commentary_chunk_resumes(what, text) ==
    /\ pc = "commentary_stream"
    /\ IF what = "chunk"
       THEN /\ Len(arrived) < MaxChunks
            /\ arrived' = Append(arrived, text)
            /\ IF text # <<>> THEN Emit(TextDelta(Str(text))) ELSE UNCHANGED frames
            /\ pc' = "commentary_stream"
       ELSE IF what = "end"
       THEN /\ pc' = "finally"
            /\ UNCHANGED <<frames, arrived>>
       ELSE /\ Len(arrived) < MaxChunks
            /\ Emit(ErrorEvent("Commentary streaming error"))
            /\ arrived' = Append(arrived, <<>>)
            /\ pc' = "commentary_stream"
    /\ UNCHANGED otherVars
    /\ UNCHANGED <<req, http, handler, message, conversations, convCalls, ctxState,
                   dbMessages, modelCalls, response, k, curResult, results, prompted>>

\* mutant of stream_weather_commentary_chunk: a chunk without text is sent as
\* a delta as well
stream_weather_commentary_chunk_unfiltered(what, text) ==
    /\ pc = "commentary_stream"
    /\ IF what = "chunk"
       THEN /\ Len(arrived) < MaxChunks
            /\ arrived' = Append(arrived, text)
            /\ Emit(TextDelta(Str(text)))
            /\ pc' = "commentary_stream"
       ELSE IF what = "end"
       THEN /\ pc' = "finally"
            /\ UNCHANGED <<frames, arrived>>
       ELSE /\ Emit(ErrorEvent("Commentary streaming error"))
            /\ pc' = "finally"
            /\ UNCHANGED arrived
    /\ UNCHANGED otherVars
    /\ UNCHANGED <<req, http, handler, message, conversations, convCalls, ctxState,
                   dbMessages, modelCalls, response, k, curResult, results, prompted>>

\* chatgpt.py:96-101 / gemini.py:98-103: one step of the loop over the stream:
\* a chunk arrives, the stream ends, or the stream raises
stream_weather_commentary_chunk(what, text) ==
    /\ pc = "commentary_stream"
    /\ IF what = "chunk"
       THEN /\ Len(arrived) < MaxChunks
            /\ arrived' = Append(arrived, text)
            /\ IF text # <<>> THEN Emit(TextDelta(Str(text))) ELSE UNCHANGED frames
            /\ pc' = "commentary_stream"
       ELSE IF what = "end"
       THEN /\ pc' = "finally"
            /\ UNCHANGED <<frames, arrived>>
       ELSE /\ Emit(ErrorEvent("Commentary streaming error"))
            /\ pc' = "finally"
            /\ UNCHANGED arrived
    /\ UNCHANGED otherVars
    /\ UNCHANGED <<req, http, handler, message, conversations, convCalls, ctxState,
                   dbMessages, modelCalls, response, k, curResult, results, prompted>>

\* chatgpt.py:50-53 / gemini.py:43-46
stream_chat_finally ==
    /\ pc = "finally"
    /\ Emit(Done)
    /\ pc' = "done"
    /\ UNCHANGED otherVars
    /\ UNCHANGED <<req, http, handler, message, conversations, convCalls, ctxState,
                   dbMessages, modelCalls, response, k, curResult, results, arrived,
                   prompted>>

\* the generator is exhausted: the response body ends
generate_end ==
    /\ pc \in {"done", "generate_failed"}
    /\ pc' = "closed"
    /\ UNCHANGED otherVars
    /\ UNCHANGED <<req, http, handler, message, conversations, convCalls, ctxState,
                   dbMessages, frames, modelCalls, response, k, curResult, results,
                   arrived, prompted>>

Next ==
    \/ pc = "idle" /\ \E r \in Requests, dbOk \in BOOLEAN : stream_chat(r, dbOk)
    \/ \E db \in DbOutcomes : generate_start(db)
    \/ pc = "first_turn" /\ \E ok \in BOOLEAN, resp \in Responses(handler) :
           first_turn(ok, resp)
    \/ plain_text_delta
    \/ handle_with_tools_announce
    \/ \E upstream \in Upstreams : handle_with_tools_execute(upstream)
    \/ handle_with_tools_append
    \/ stream_weather_commentary_start
    \/ \E ok \in BOOLEAN : stream_weather_commentary_call(ok)
    \/ \E what \in {"chunk", "end", "raise"}, text \in ChunkTexts :
           stream_weather_commentary_chunk(what, text)
    \/ stream_chat_finally
    \/ generate_end

Spec == Init /\ [][Next]_vars

(***************************************************************************)
(* The client goes away.  The server then calls close() on the response    *)
(* iterable, generate(), which is suspended at a yield; generate() holds   *)
(* the generator of handler.stream_chat in its for loop.                   *)
(***************************************************************************)
LastFrame == frames[Len(frames)]

\* chatgpt.py:42-48 / gemini.py:34-41 and the yields of _handle_with_tools and
\* _stream_weather_commentary: stream_chat() is suspended at a yield of its
\* try or except block, that is, the step before handed a frame over
InTryBlock ==
    \/ pc \in {"plain_text", "tool_exec", "tool_append", "commentary_call"}
    \/ pc = "commentary_stream" /\ arrived # <<>> /\ arrived[Len(arrived)] # <<>>
    \/ /\ pc = "finally"
       /\ frames # <<>>
       /\ \/ LastFrame.type = "error"
          \/ LastFrame.type = "text_delta" /\ ~prompted

\* chatgpt.py:50-53 / gemini.py:43-46: stream_chat() is suspended at the yield
\* of its finally block
InFinallyBlock == pc = "done"

\* main.py:65-67: stream_chat() has raised, generate() is suspended at the yield
\* of its except clause
InGenerateExcept == pc = "generate_failed"

\* generate() is suspended at one of its yields
Suspended == InTryBlock \/ InFinallyBlock \/ InGenerateExcept

\* close() of the generator of stream_chat: GeneratorExit is raised at the
\* yield where it is suspended.  `except Exception` (chatgpt.py:47, gemini.py:40)
\* does not catch it, a BaseException; the finally block runs and yields `done`
\* (chatgpt.py:53, gemini.py:46), so close() raises RuntimeError("generator
\* ignored GeneratorExit").  At the yield of the finally block itself the
\* GeneratorExit leaves the generator and close() returns.
stream_chat_close ==
    IF InTryBlock THEN "RuntimeError"
    ELSE IF InFinallyBlock THEN "returned"
    ELSE "finished"

\* close() of generate(), main.py:61-67: GeneratorExit is raised at `yield
\* chunk` or at the yield of the except clause, `except Exception` does not
\* catch it, it leaves generate() and close() returns.  The for loop lets go of
\* the generator of stream_chat, which the interpreter closes: what that close
\* raises is reported as unraisable, not to the caller.
generate_close == "returned"

\* the response iterable is closed before it is exhausted.  The `done` frame
\* built by the finally block is never delivered.
client_disconnect ==
    /\ Suspended
    /\ closing' = [at |-> pc, stream_chat |-> stream_chat_close,
                   generate |-> generate_close]
    /\ pc' = "disconnected"
    /\ UNCHANGED <<req, http, handler, message, conversations, convCalls, ctxState,
                   dbMessages, frames, modelCalls, response, k, curResult, results,
                   arrived, prompted>>
    /\ UNCHANGED <<tool, dbToolCalls, lastOp, appended, conversation_context, threads,
                   dbEvaluations, evalRuns, dbConversations>>

NextDisconnect ==
    \/ Next
    \/ client_disconnect

SpecDisconnect == Init /\ [][NextDisconnect]_vars

(***************************************************************************)
(* The weather tools on their own: one invocation with arguments that bind *)
(* (tools/weather.py), for every answer of the upstream API.               *)
(***************************************************************************)
ToolInputs ==
    {[NoTool EXCEPT !.name = "get_current_weather", !.units = u, !.upstream = up] :
        u \in UnitsValues, up \in UpstreamResponses}
    \cup
    {[NoTool EXCEPT !.name = "get_weather_forecast", !.days = d, !.upstream = up] :
        d \in DaysValues, up \in UpstreamResponses}

InitTools ==
    /\ StreamIdle
    /\ tool \in ToolInputs
    /\ dbToolCalls = <<>>
    /\ lastOp = NoOp
    /\ appended = <<>>
    /\ conversation_context = [t \in Threads |-> NoState]
    /\ threads = [t \in Threads |-> IdleThread]
    /\ dbEvaluations = <<>>
    /\ evalRuns = [r \in Runs |-> IdleRun]
    /\ closing = NotClosed
    /\ dbConversations = StoredConversations

\* tools/weather.py:11-42
call_get_current_weather ==
    /\ tool.name = "get_current_weather"
    /\ ~tool.called
    /\ tool' = [tool EXCEPT !.called = TRUE,
                            !.result = get_current_weather(tool.units, tool.upstream)]
    /\ UNCHANGED <<streamVars, dbToolCalls, lastOp, appended, conversation_context,
                   threads, dbEvaluations, evalRuns, closing, dbConversations>>

\* tools/weather.py:45-107
call_get_weather_forecast ==
    /\ tool.name = "get_weather_forecast"
    /\ ~tool.called
    /\ tool' = [tool EXCEPT !.called = TRUE,
                            !.result = get_weather_forecast(tool.days, tool.upstream)]
    /\ UNCHANGED <<streamVars, dbToolCalls, lastOp, appended, conversation_context,
                   threads, dbEvaluations, evalRuns, closing, dbConversations>>

NextTools ==
    \/ call_get_current_weather
    \/ call_get_weather_forecast

SpecTools == InitTools /\ [][NextTools]_vars

(***************************************************************************)
(* The ContextManager on its own: its static methods called in any order   *)
(* by one thread, with every outcome of the database writes.               *)
(***************************************************************************)
\* the variables the ContextManager and the DatabaseManager leave alone
ctxFrame ==
    /\ lastOp.n < MaxOps
    /\ UNCHANGED <<pc, req, http, handler, message, convCalls, frames, modelCalls,
                response, k, curResult, results, arrived, prompted, tool,
                conversation_context, threads, dbEvaluations, evalRuns, closing, dbConversations>>

\* n: the ordinal of the call
Op(op, branch, ret) == [op |-> op, branch |-> branch, ret |-> ret, n |-> lastOp.n + 1]

\* deltas handed to append_response
DeltaValues == {<<"a">>, <<"b">>}

\* calls handed to set_pending_tool_call
PendingCalls ==
    {Pending("get_current_weather", Map({"city"})),
     Pending("get_weather_forecast", Map({"city", "days"}))}

\* result and error message handed to resolve_pending_tool_call
Resolution(result, error_message) == [result |-> result, error_message |-> error_message]

\* results of _execute_tool (base.py:101-114): a weather dictionary, an error
\* dictionary
ToolResults ==
    {OkResult({"city", "country", "temperature", "description"}),
     ErrorResult("api_error")}

\* the handler's report of an executed tool call: a result that holds an error
\* is reported with an error message, any other without
handler_resolve_tool_call(result) ==
    Resolution(result, IF "error" \in result.fields THEN Str(<<"e">>) ELSE Absent)

Resolutions == {handler_resolve_tool_call(r) : r \in ToolResults}

RECURSIVE Flatten(_)
Flatten(ds) == IF ds = <<>> THEN <<>> ELSE Head(ds) \o Flatten(Tail(ds))

\* the call raised in _get_state: nothing changes
NoStateCall(op) ==
    /\ lastOp' = Op(op, "no_state", 0)
    /\ UNCHANGED <<ctxState, conversations, dbMessages, dbToolCalls, appended>>

\* context/manager.py:65-78.  A generated session id is new to the database.
call_start_conversation(sid, dbOk) ==
    /\ sid.present \/ FindConversation(conversations, "uuid", 1) = 0
    /\ IF ~dbOk
       THEN /\ lastOp' = Op("start_conversation", "raised", 0)
            /\ UNCHANGED <<ctxState, conversations, appended>>
       ELSE LET r == start_conversation(conversations,
                                        IF sid.present THEN sid.val ELSE "uuid",
                                        "gpt-5-nano")
            IN  /\ conversations' = r.convs
                /\ ctxState' = r.state
                /\ appended' = <<>>
                /\ lastOp' = Op("start_conversation", "started", r.state.conversation_id)
    /\ UNCHANGED <<dbMessages, dbToolCalls>>
    /\ ctxFrame

\* context/manager.py:59-61, _set_state(ConversationState())
call_set_state ==
    /\ ctxState' = BareState
    /\ appended' = <<>>
    /\ lastOp' = Op("_set_state", "set", 0)
    /\ UNCHANGED <<conversations, dbMessages, dbToolCalls>>
    /\ ctxFrame

\* context/manager.py:82-95; lines 84-86 start a conversation of a generated
\* session id when the state has none
call_set_user_message(db) ==
    /\ Len(dbMessages) < MaxRows
    /\ IF NoStateRaises(ctxState)
       THEN NoStateCall("set_user_message")
       ELSE LET started == start_conversation(conversations, "uuid", "-")
                bound == ctxState.conversation_id # 0
                r == set_user_message(IF bound THEN ctxState ELSE started.state,
                                      dbMessages, <<"h", "i">>, db)
            IN  /\ conversations' = IF bound THEN conversations ELSE started.convs
                /\ ctxState' = r.state
                /\ dbMessages' = r.rows
                /\ appended' = IF bound THEN appended ELSE <<>>
                /\ lastOp' = Op("set_user_message",
                                IF r.raised THEN "raised" ELSE "persisted",
                                IF r.raised THEN 0 ELSE r.state.current_user_message_id)
                /\ UNCHANGED dbToolCalls
    /\ ctxFrame

\* context/manager.py:99-105
call_start_assistant_response ==
    /\ IF NoStateRaises(ctxState)
       THEN NoStateCall("start_assistant_response")
       ELSE /\ ctxState' = start_assistant_response(ctxState)
            /\ appended' = <<>>
            /\ lastOp' = Op("start_assistant_response", "started", 0)
            /\ UNCHANGED <<conversations, dbMessages, dbToolCalls>>
    /\ ctxFrame

\* context/manager.py:107-111
call_append_response(delta) ==
    /\ Len(appended) < MaxText
    /\ IF NoStateRaises(ctxState)
       THEN NoStateCall("append_response")
       ELSE /\ ctxState' = append_response(ctxState, delta)
            /\ appended' = Append(appended, delta)
            /\ lastOp' = Op("append_response", "appended", 0)
            /\ UNCHANGED <<conversations, dbMessages, dbToolCalls>>
    /\ ctxFrame

\* context/manager.py:115-119
call_set_pending_tool_call(c) ==
    /\ IF NoStateRaises(ctxState)
       THEN NoStateCall("set_pending_tool_call")
       ELSE /\ ctxState' = set_pending_tool_call(ctxState, c.function_name, c.arguments)
            /\ lastOp' = Op("set_pending_tool_call",
                            IF ctxState.pending_tool_call = NoPending
                            THEN "set" ELSE "replaced", 0)
            /\ UNCHANGED <<conversations, dbMessages, dbToolCalls, appended>>
    /\ ctxFrame

\* context/manager.py:121-138
call_resolve_pending_tool_call(res) ==
    /\ Len(ctxState.tool_calls) < MaxRecords
    /\ IF NoStateRaises(ctxState)
       THEN NoStateCall("resolve_pending_tool_call")
       ELSE /\ ctxState' = resolve_pending_tool_call(ctxState, res.result, res.error_message)
            /\ lastOp' = Op("resolve_pending_tool_call",
                            IF ctxState.pending_tool_call = NoPending
                            THEN "no_pending" ELSE "resolved", 0)
            /\ UNCHANGED <<conversations, dbMessages, dbToolCalls, appended>>
    /\ ctxFrame

\* context/manager.py:142-166
call_finalize_assistant_response(db, failAt) ==
    /\ Len(dbMessages) < MaxRows
    /\ IF NoStateRaises(ctxState)
       THEN NoStateCall("finalize_assistant_response")
       ELSE LET r == finalize_assistant_response(ctxState, dbMessages, dbToolCalls,
                                                 FALSE, db, failAt)
            IN  /\ ctxState' = r.state
                /\ dbMessages' = r.rows
                /\ dbToolCalls' = r.tcRows
                /\ lastOp' = Op("finalize_assistant_response", r.branch, r.ret)
                /\ UNCHANGED <<conversations, appended>>
    /\ ctxFrame

NextCtx ==
    \/ \E sid \in {[present |-> TRUE, val |-> "s1"]}, dbOk \in BOOLEAN :
           call_start_conversation(sid, dbOk)
    \/ call_set_state
    \/ \E db \in DbOutcomes : call_set_user_message(db)
    \/ call_start_assistant_response
    \/ \E delta \in DeltaValues : call_append_response(delta)
    \/ \E c \in PendingCalls : call_set_pending_tool_call(c)
    \/ \E res \in Resolutions : call_resolve_pending_tool_call(res)
    \/ \E db \in DbOutcomes, failAt \in 0..MaxRecords :
           call_finalize_assistant_response(db, failAt)

SpecCtx == Init /\ [][NextCtx]_vars

(***************************************************************************)
(* Concurrent requests: each server thread starts conversations and calls  *)
(* the ContextManager for its own request, interleaved with the other.     *)
(* get_or_create_conversation is two steps, the query and the insert, with *)
(* no lock between them (database/models.py:236-252).                      *)
(***************************************************************************)
threadFrame ==
    /\ lastOp.n < MaxOps
    /\ UNCHANGED <<pc, req, http, handler, message, convCalls, frames, modelCalls,
                   response, k, curResult, results, arrived, prompted, tool, appended,
                   dbEvaluations, evalRuns, closing, dbConversations>>

\* context/manager.py:54, conversation_context.get() in thread t
ContextGet(ctx, t) == ctx[t]

\* mutant of ContextSet: the state is kept in one module-level variable
ContextSet_global(ctx, t, state) == [u \in DOMAIN ctx |-> state]

\* context/manager.py:61, conversation_context.set(state) in thread t
ContextSet(ctx, t, state) == [ctx EXCEPT ![t] = state]

\* what the request served by thread t hands to the ContextManager
DeltaOf(t) == IF t = 1 THEN <<"a">> ELSE <<"b">>
PendingOf(t) ==
    IF t = 1 THEN Pending("get_current_weather", Map({"city"}))
    ELSE Pending("get_weather_forecast", Map({"city", "days"}))
ResolutionOf(t) ==
    IF t = 1 THEN Resolution(OkResult({"city", "country", "temperature", "description"}), Absent)
    ELSE Resolution(ErrorResult("api_error"), Str(<<"e">>))

\* session ids of the requests: one with a conversation row, one new
SessionIds == {"s1", "s2"}

\* context/manager.py:70-77 after get_or_create_conversation returned id
Started(t, sid, id) ==
    /\ conversation_context' =
           ContextSet(conversation_context, t,
                      [NoState EXCEPT !.init = TRUE, !.session_id = sid,
                                      !.conversation_id = id,
                                      !.model_name = "gpt-5-nano"])
    /\ threads' = [threads EXCEPT ![t] =
                      [IdleThread EXCEPT !.sid = sid, !.last = "started", !.ret = id]]
    /\ lastOp' = Op("start_conversation", "started", id)

\* context/manager.py:65-68 with database/models.py:239-242: the query of
\* get_or_create_conversation; a row found is returned
thread_start_conversation_query(t, sid) ==
    /\ threads[t].pc = "ready"
    /\ LET found == FindConversation(conversations, sid, 1)
       IN  IF found # 0
           THEN Started(t, sid, found)
           ELSE /\ threads' = [threads EXCEPT ![t] =
                                  [IdleThread EXCEPT !.pc = "insert", !.sid = sid]]
                /\ UNCHANGED <<conversation_context, lastOp>>
    /\ UNCHANGED <<ctxState, conversations, dbMessages, dbToolCalls>>
    /\ threadFrame

\* database/models.py:244-248: the insert; session_id is unique
\* (database/models.py:15), so the commit of a second row raises
thread_start_conversation_insert(t) ==
    /\ threads[t].pc = "insert"
    /\ IF FindConversation(conversations, threads[t].sid, 1) # 0
       THEN /\ threads' = [threads EXCEPT ![t].pc = "ready", ![t].last = "raised"]
            /\ lastOp' = Op("start_conversation", "raised", 0)
            /\ UNCHANGED <<conversation_context, conversations>>
       ELSE /\ conversations' = Append(conversations, threads[t].sid)
            /\ Started(t, threads[t].sid, Len(conversations) + 1)
    /\ UNCHANGED <<ctxState, dbMessages, dbToolCalls>>
    /\ threadFrame

\* the request of thread t has started its conversation and calls on
InRequest(t) == threads[t].pc = "ready" /\ threads[t].last = "started"

\* context/manager.py:82-95
thread_set_user_message(t) ==
    /\ InRequest(t)
    /\ Len(dbMessages) < MaxRows
    /\ LET r == set_user_message(ContextGet(conversation_context, t), dbMessages,
                                 <<"h", "i">>, "ok")
       IN  /\ conversation_context' = ContextSet(conversation_context, t, r.state)
           /\ dbMessages' = r.rows
           /\ lastOp' = Op("set_user_message", "persisted", r.state.current_user_message_id)
    /\ UNCHANGED <<ctxState, conversations, dbToolCalls, threads>>
    /\ threadFrame

\* context/manager.py:99-105
thread_start_assistant_response(t) ==
    /\ InRequest(t)
    /\ conversation_context' =
           ContextSet(conversation_context, t,
                      start_assistant_response(ContextGet(conversation_context, t)))
    /\ threads' = [threads EXCEPT ![t].deltas = <<>>]
    /\ lastOp' = Op("start_assistant_response", "started", 0)
    /\ UNCHANGED <<ctxState, conversations, dbMessages, dbToolCalls>>
    /\ threadFrame

\* context/manager.py:107-111
thread_append_response(t) ==
    /\ InRequest(t)
    /\ Len(threads[t].deltas) < MaxText
    /\ conversation_context' =
           ContextSet(conversation_context, t,
                      append_response(ContextGet(conversation_context, t), DeltaOf(t)))
    /\ threads' = [threads EXCEPT ![t].deltas = Append(@, DeltaOf(t))]
    /\ lastOp' = Op("append_response", "appended", 0)
    /\ UNCHANGED <<ctxState, conversations, dbMessages, dbToolCalls>>
    /\ threadFrame

\* context/manager.py:115-119
thread_set_pending_tool_call(t) ==
    /\ InRequest(t)
    /\ conversation_context' =
           ContextSet(conversation_context, t,
                      set_pending_tool_call(ContextGet(conversation_context, t),
                                            PendingOf(t).function_name,
                                            PendingOf(t).arguments))
    /\ threads' = [threads EXCEPT ![t].pending = PendingOf(t)]
    /\ lastOp' = Op("set_pending_tool_call", "set", 0)
    /\ UNCHANGED <<ctxState, conversations, dbMessages, dbToolCalls>>
    /\ threadFrame

\* context/manager.py:121-138
thread_resolve_pending_tool_call(t) ==
    /\ InRequest(t)
    /\ Len(threads[t].records) < MaxRecords
    /\ conversation_context' =
           ContextSet(conversation_context, t,
                      resolve_pending_tool_call(ContextGet(conversation_context, t),
                                                ResolutionOf(t).result,
                                                ResolutionOf(t).error_message))
    /\ threads' =
           IF threads[t].pending = NoPending THEN threads
           ELSE [threads EXCEPT
                   ![t].records = Append(@, ToolCallRecord(threads[t].pending,
                                                           ResolutionOf(t).result,
                                                           ResolutionOf(t).error_message)),
                   ![t].pending = NoPending]
    /\ lastOp' = Op("resolve_pending_tool_call", "called", 0)
    /\ UNCHANGED <<ctxState, conversations, dbMessages, dbToolCalls>>
    /\ threadFrame

\* context/manager.py:142-166, the writes accepted
thread_finalize_assistant_response(t) ==
    /\ InRequest(t)
    /\ Len(dbMessages) < MaxRows
    /\ LET r == finalize_assistant_response(ContextGet(conversation_context, t),
                                            dbMessages, dbToolCalls, FALSE, "ok", 0)
       IN  /\ conversation_context' = ContextSet(conversation_context, t, r.state)
           /\ dbMessages' = r.rows
           /\ dbToolCalls' = r.tcRows
           /\ threads' = IF r.raised THEN threads ELSE [threads EXCEPT ![t].records = <<>>]
           /\ lastOp' = Op("finalize_assistant_response", r.branch, r.ret)
    /\ UNCHANGED <<ctxState, conversations>>
    /\ threadFrame

NextThreads ==
    \/ \E t \in Threads, sid \in SessionIds : thread_start_conversation_query(t, sid)
    \/ \E t \in Threads : thread_start_conversation_insert(t)
    \/ \E t \in Threads : thread_set_user_message(t)
    \/ \E t \in Threads : thread_start_assistant_response(t)
    \/ \E t \in Threads : thread_append_response(t)
    \/ \E t \in Threads : thread_set_pending_tool_call(t)
    \/ \E t \in Threads : thread_resolve_pending_tool_call(t)
    \/ \E t \in Threads : thread_finalize_assistant_response(t)

SpecThreads == Init /\ [][NextThreads]_vars

(***************************************************************************)
(* Evaluation runs: POST /api/evaluation/run starts a background thread    *)
(* that evaluates the assistant messages without evaluation, one by one.   *)
(* The pre-check (_is_already_evaluated) and the insert (create_evaluation)*)
(* are separate database sessions with the model call between them.        *)
(***************************************************************************)
evalFrame ==
    UNCHANGED <<streamVars, tool, dbToolCalls, lastOp, appended, conversation_context,
                threads, closing, dbConversations>>

\* evaluators/chatgpt.py:13, the evaluator model
EvaluatorModel == "gpt-5-nano"

\* limits a client may send to POST /api/evaluation/run
EvalLimits == {1, 50}

\* message rows of earlier turns: a user message and two assistant messages
StoredMessages ==
    <<MessageRow(1, "user", <<"h", "i">>),
      [conversation_id |-> 1, role |-> "assistant", content |-> <<"a">>,
       model_name |-> "gpt-5-nano", error_occurred |-> FALSE],
      [conversation_id |-> 1, role |-> "assistant", content |-> <<>>,
       model_name |-> "gemini-2.0-flash-lite", error_occurred |-> TRUE]>>

\* database/models.py:301-327, the row create_evaluation inserts
EvaluationRow(id, model) == [message_id |-> id, evaluator_model |-> model]

\* evaluators/chatgpt.py:141-149
IsAlreadyEvaluated(evals, id) == \E i \in DOMAIN evals : evals[i].message_id = id

\* database/models.py:350-365: ids of the assistant messages without
\* evaluation, newest first, at most limit of them
RECURSIVE Unevaluated(_, _, _, _)
Unevaluated(rows, evals, i, limit) ==
    IF i = 0 \/ limit = 0 THEN <<>>
    ELSE IF rows[i].role = "assistant" /\ ~IsAlreadyEvaluated(evals, i)
    THEN <<i>> \o Unevaluated(rows, evals, i - 1, limit - 1)
    ELSE Unevaluated(rows, evals, i - 1, limit)

\* what the model call, the parsing of its answer and the insert may end in
\* (evaluators/chatgpt.py:36-86)
EvalOutcomes == {"ok", "provider_error", "bad_json", "missing_fields", "store_error"}

InitEval ==
    /\ RequestIdle
    /\ conversations = <<"s1">>
    /\ dbMessages = StoredMessages
    /\ tool = NoTool
    /\ dbToolCalls = <<>>
    /\ lastOp = NoOp
    /\ appended = <<>>
    /\ conversation_context = [t \in Threads |-> NoState]
    /\ threads = [t \in Threads |-> IdleThread]
    /\ dbEvaluations = <<>>
    /\ evalRuns = [r \in Runs |-> IdleRun]
    /\ closing = NotClosed
    /\ dbConversations = StoredConversations

\* evaluators/chatgpt.py:275-292: the loop goes to the next message id
NextMessage(run, last) ==
    [run EXCEPT !.queue = Tail(@),
                !.pc = IF Tail(run.queue) = <<>> THEN "done" ELSE "check",
                !.last = last]

\* main.py:208-227: the endpoint starts a thread and answers
run_evaluation(r, limit) ==
    /\ evalRuns[r].pc \in {"idle", "done"}
    /\ evalRuns' = [evalRuns EXCEPT ![r] = [IdleRun EXCEPT !.pc = "fetch", !.limit = limit]]
    /\ UNCHANGED dbEvaluations
    /\ evalFrame

\* evaluators/chatgpt.py:256-268 with database/models.py:350-365
batch_evaluate_unevaluated(r) ==
    /\ evalRuns[r].pc = "fetch"
    /\ LET ids == Unevaluated(dbMessages, dbEvaluations, Len(dbMessages), evalRuns[r].limit)
       IN  evalRuns' = [evalRuns EXCEPT ![r].queue = ids,
                                        ![r].pc = IF ids = <<>> THEN "done" ELSE "check"]
    /\ UNCHANGED dbEvaluations
    /\ evalFrame

\* evaluators/chatgpt.py:17-31: the message data and the pre-check
evaluate_message_check(r) ==
    /\ evalRuns[r].pc = "check"
    /\ LET id == Head(evalRuns[r].queue)
       IN  IF IsAlreadyEvaluated(dbEvaluations, id)
           THEN evalRuns' = [evalRuns EXCEPT ![r] =
                                NextMessage(@, [id |-> id, evaluated |-> TRUE,
                                                stored |-> FALSE, ret |-> "none"])]
           ELSE evalRuns' = [evalRuns EXCEPT ![r].pc = "score"]
    /\ UNCHANGED dbEvaluations
    /\ evalFrame

\* evaluators/chatgpt.py:33-86: the model call, the parsing and validation of
\* its answer and the insert of the evaluation
evaluate_message_score(r, outcome) ==
    /\ evalRuns[r].pc = "score"
    /\ LET id == Head(evalRuns[r].queue)
           \* the pre-check of this call found no evaluation
           was == FALSE
       IN  IF outcome = "ok"
           THEN /\ dbEvaluations' = Append(dbEvaluations, EvaluationRow(id, EvaluatorModel))
                /\ evalRuns' = [evalRuns EXCEPT ![r] =
                                   NextMessage(@, [id |-> id, evaluated |-> was,
                                                   stored |-> TRUE, ret |-> "evaluation"])]
           ELSE /\ UNCHANGED dbEvaluations
                /\ evalRuns' = [evalRuns EXCEPT ![r] =
                                   NextMessage(@, [id |-> id, evaluated |-> was,
                                                   stored |-> FALSE, ret |-> "none"])]
    /\ evalFrame

NextEval ==
    \/ \E r \in Runs, limit \in EvalLimits : run_evaluation(r, limit)
    \/ \E r \in Runs : batch_evaluate_unevaluated(r)
    \/ \E r \in Runs : evaluate_message_check(r)
    \/ \E r \in Runs, outcome \in EvalOutcomes : evaluate_message_score(r, outcome)

SpecEval == InitEval /\ [][NextEval]_vars

(***************************************************************************)
(* The conversations table under the DatabaseManager calls of the          *)
(* streaming path, in any order.  datetime.utcnow() is the ordinal of the  *)
(* call.                                                                   *)
(***************************************************************************)
MaxDbOps == 5

Addresses == {"ip1", "ip2"}
Agents == {"agent1", "agent2"}

\* database/models.py:239, filter_by(session_id=...).first(): the id of the
\* row, or 0
RECURSIVE FindSession(_, _, _)
FindSession(rows, sid, i) ==
    IF i > Len(rows) THEN 0
    ELSE IF rows[i].session_id = sid THEN i
    ELSE FindSession(rows, sid, i + 1)

\* mutant of get_or_create_conversation: a row that is found takes the
\* address and the user agent of the call
get_or_create_conversation_refreshes(rows, sid, ip, agent, now) ==
    LET found == FindSession(rows, sid, 1)
    IN  IF found # 0
        THEN [rows |-> [rows EXCEPT ![found].user_ip = ip, ![found].user_agent = agent],
              id |-> found]
        ELSE [rows |-> Append(rows, ConversationRow(sid, ip, agent, now)),
              id |-> Len(rows) + 1]

\* database/models.py:236-252
get_or_create_conversation(rows, sid, ip, agent, now) ==
    LET found == FindSession(rows, sid, 1)
    IN  IF found # 0
        THEN [rows |-> rows, id |-> found]
        ELSE [rows |-> Append(rows, ConversationRow(sid, ip, agent, now)),
              id |-> Len(rows) + 1]

\* database/models.py:271-275: the conversation of the message, when there is
\* one, gets a new last_activity
TouchConversation(rows, conv, now) ==
    IF conv \in DOMAIN rows THEN [rows EXCEPT ![conv].last_activity = now] ELSE rows

\* database/models.py:254-279.  db: the first commit fails ("error"), the
\* second does ("error_after_commit"), or none
create_message(msgs, rows, conv, role, content, db, now) ==
    IF db = "error"
    THEN [raised |-> TRUE, id |-> 0, msgs |-> msgs, rows |-> rows]
    ELSE LET written == Append(msgs, MessageRow(conv, role, content))
         IN  IF db = "error_after_commit" /\ conv \in DOMAIN rows
             THEN [raised |-> TRUE, id |-> 0, msgs |-> written, rows |-> rows]
             ELSE [raised |-> FALSE, id |-> Len(written), msgs |-> written,
                   rows |-> TouchConversation(rows, conv, now)]

dbFrame ==
    /\ lastOp.n < MaxDbOps
    /\ UNCHANGED <<pc, req, http, handler, message, conversations, convCalls, ctxState,
                   frames, modelCalls, response, k, curResult, results, arrived,
                   prompted, tool, dbToolCalls, appended, conversation_context,
                   threads, dbEvaluations, evalRuns, closing>>

\* datetime.utcnow() at the call
UtcNow == lastOp.n + 1

\* database/models.py:236-252, called by start_conversation (manager.py:69)
db_get_or_create_conversation(sid, ip, agent) ==
    /\ LET found == FindSession(dbConversations, sid, 1)
           r == get_or_create_conversation(dbConversations, sid, ip, agent, UtcNow)
       IN  /\ dbConversations' = r.rows
           /\ lastOp' = Op("get_or_create_conversation",
                           IF found = 0 THEN "created"
                           ELSE IF dbConversations[found].user_ip # ip
                                   /\ dbConversations[found].user_agent # agent
                           THEN "found_other_values"
                           ELSE "found",
                           r.id)
    /\ UNCHANGED dbMessages
    /\ dbFrame

\* database/models.py:254-279, called by set_user_message (manager.py:88) and
\* finalize_assistant_response (manager.py:150)
db_create_message(conv, role, db) ==
    /\ Len(dbMessages) < MaxRows
    /\ LET r == create_message(dbMessages, dbConversations, conv, role, <<"h", "i">>,
                               db, UtcNow)
       IN  /\ dbMessages' = r.msgs
           /\ dbConversations' = r.rows
           /\ lastOp' = Op("create_message",
                           IF r.raised THEN "raised" ELSE "created", r.id)
    /\ dbFrame

NextDb ==
    \/ \E sid \in SessionIds, ip \in Addresses, agent \in Agents :
           db_get_or_create_conversation(sid, ip, agent)
    \/ \E conv \in 1..Len(dbConversations) + 1, role \in {"user", "assistant"},
          db \in DbOutcomes :
           db_create_message(conv, role, db)

SpecDb == Init /\ [][NextDb]_vars

(***************************************************************************)
(* Properties of the event stream.                                         *)
(***************************************************************************)
Count(type) == Cardinality({i \in DOMAIN frames : frames[i].type = type})

ToolEventTypes == {"tool_call", "weather_data"}

NumCalls == Len(response.tool_calls)

\* the generator was exhausted: the client has the whole stream
StreamOver == pc = "closed"

\* C1: for every valid request and every outcome of the collaborators, the
\* frames delivered by generate() contain exactly one `done` event, and it is
\* the last frame.
C1_ExactlyOneDoneLast ==
    StreamOver =>
        /\ Count("done") = 1
        /\ frames[Len(frames)].type = "done"

\* C2: an `error` event occurs at most once in a turn, and every event after
\* an `error` event is `done`, wherever the exception was raised.
C2_ErrorOnceThenDone ==
    /\ Count("error") <= 1
    /\ \A i \in DOMAIN frames :
           frames[i].type = "error" =>
               \A j \in DOMAIN frames : j > i => frames[j].type = "done"

\* C2 witness: an error raised in the commentary turn, after text was
\* streamed, followed by done
C2_Witness ==
    /\ StreamOver
    /\ \E i, j \in DOMAIN frames :
           /\ j < i
           /\ frames[j].type = "text_delta"
           /\ frames[i].type = "error"
           /\ frames[i].message = "Commentary streaming error"
           /\ i < Len(frames)

\* C3: when the first model turn requested N >= 1 tool calls and all of them
\* were decoded and executed, the tool events of the stream are
\* tool_call(c1), weather_data(c1), ..., tool_call(cN), weather_data(cN): they
\* are the first 2N frames, in the order of the request, each weather_data
\* carrying the result of its own call, and no tool event follows them.
C3_ToolEventsPairedInOrder ==
    (HasToolCalls(response) /\ k > NumCalls) =>
        /\ Len(frames) >= 2 * NumCalls
        /\ Len(results) = NumCalls
        /\ \A i \in 1..NumCalls :
               LET c == response.tool_calls[i]
               IN  /\ frames[2 * i - 1] = FormatSSE(ToolCallEvent(c))
                   /\ frames[2 * i] = FormatSSE(WeatherData(results[i], c.args))
                   /\ \E u \in Upstreams : results[i] = ExecuteTool(c.name, c.args, u)
        /\ \A j \in DOMAIN frames :
               j > 2 * NumCalls => frames[j].type \notin ToolEventTypes
        /\ Count("tool_call") = NumCalls
        /\ Count("weather_data") = NumCalls

\* C3 witness: two different calls were handled and commentary text followed
C3_Witness ==
    /\ StreamOver
    /\ NumCalls = 2
    /\ k > NumCalls
    /\ response.tool_calls[1] # response.tool_calls[2]
    /\ Count("text_delta") >= 1

\* the text the model returned in a response without tool calls
FullText(h, resp) ==
    IF h = "chatgpt" THEN Get(resp.content, <<>>) ELSE Join(resp.parts)

\* the deltas of the text_delta frames, in order
DeltaFrames == SelectSeq(frames, LAMBDA f : f.type = "text_delta")

RECURSIVE ConcatDeltas(_)
ConcatDeltas(fs) == IF fs = <<>> THEN <<>> ELSE Head(fs).delta.str \o ConcatDeltas(Tail(fs))

\* C4: in a turn whose first model response has no tool calls, the deltas of
\* the text_delta events are strings whose concatenation is the text the
\* model returned, also when the content is empty or absent.
C4_PlainDeltasAreModelText ==
    (StreamOver /\ response.received /\ ~HasToolCalls(response)) =>
        /\ \A i \in DOMAIN frames :
               frames[i].type = "text_delta" => ~frames[i].delta.null
        /\ ConcatDeltas(DeltaFrames) = FullText(handler, response)

\* C5: every text_delta is preceded by a text_start, text_start is emitted at
\* most once, nothing but tool events precedes a tool event (so no text_start
\* comes before the last weather_data), and done is the last frame.
C5_TextStartOrder ==
    /\ Count("text_start") <= 1
    /\ \A i \in DOMAIN frames :
           /\ frames[i].type = "text_delta" =>
                  \E j \in DOMAIN frames : j < i /\ frames[j].type = "text_start"
           /\ frames[i].type \in ToolEventTypes =>
                  \A j \in DOMAIN frames : j < i => frames[j].type \in ToolEventTypes
           /\ frames[i].type = "done" => i = Len(frames)

\* C5 witness: a finished stream tool_call, weather_data, tool_call,
\* weather_data, text_start, text_delta, ..., done
C5_Witness ==
    /\ StreamOver
    /\ Len(frames) >= 7
    /\ frames[4].type = "weather_data"
    /\ frames[5].type = "text_start"
    /\ frames[6].type = "text_delta"
    /\ frames[Len(frames)].type = "done"

\* C6: when the first model response requests no tool call, the model is
\* called exactly once, no commentary is requested, no tool event is emitted
\* and the only text events are those of the plain-text branch.
C6_NoToolsNoCommentary ==
    (response.received /\ ~HasToolCalls(response)) =>
        /\ modelCalls = 1
        /\ ~prompted
        /\ pc \notin {"tool_loop", "tool_exec", "tool_append", "commentary",
                      "commentary_call", "commentary_stream"}
        /\ Count("tool_call") = 0
        /\ Count("weather_data") = 0
        /\ Count("text_start") <= 1
        /\ Count("text_delta") <= 1
        /\ \A i \in DOMAIN frames :
               frames[i].type = "text_delta" =>
                   frames[i] = FormatSSE(TextDelta(PlainText(handler, response)))
        /\ StreamOver =>
               <<frames[1].type, frames[2].type, frames[3].type>>
                   = <<"text_start", "text_delta", "done">>

\* C6 witness: a finished turn without tool calls
C6_Witness ==
    /\ StreamOver
    /\ response.received
    /\ ~HasToolCalls(response)
    /\ modelCalls = 1
    /\ Len(frames) = 3

\* the message of a body is missing, empty or whitespace only
BlankMessage(r) ==
    \/ ~r.message.present
    \/ \A i \in DOMAIN r.message.val : r.message.val[i] = SP

\* the view has touched nothing but the answer
NothingStarted ==
    /\ handler = "none"
    /\ convCalls = 0
    /\ conversations = <<"s1">>
    /\ ctxState = NoState
    /\ dbMessages = <<>>
    /\ modelCalls = 0
    /\ frames = <<>>

\* C7: a request whose message is missing, empty or whitespace only is
\* answered with HTTP 400 and an error body; no stream is opened, no
\* conversation is created or looked up, no ConversationState is set and no
\* model call is made.
C7_BlankMessageRejected ==
    /\ (pc = "responded" /\ BlankMessage(req)) =>
           /\ http.status = 400
           /\ http.error
           /\ NothingStarted
    /\ pc \notin {"idle", "responded"} =>
           \E i \in DOMAIN message : message[i] # SP

\* C7 witness: a whitespace-only message with a supported model was refused
C7_Witness ==
    /\ pc = "responded"
    /\ req.message = Str(<<SP>>)
    /\ req.model = Str("gpt-5-nano")
    /\ http.status = 400

\* the model identifier the view works with (main.py:41)
RequestedModel(r) == Get(r.model, "gpt-5-nano")

\* the endpoint's list and get_model's branches accept the same identifiers
AcceptedIffHandler ==
    \A m \in ModelIds : (m \in SupportedModels) <=> (get_model(m) # "none")

\* C8: a request whose model is not a supported identifier is answered with
\* HTTP 400 before a handler is constructed, a conversation is started or a
\* provider is called; the identifiers the endpoint accepts are those for
\* which get_model returns a handler, so the view's check of the handler
\* (main.py:55-56) never answers and an open stream always has a handler.
C8_UnsupportedModelRejected ==
    /\ (pc = "responded" /\ req.body /\ RequestedModel(req) \notin SupportedModels) =>
           /\ http.status = 400
           /\ http.error
           /\ NothingStarted
    /\ AcceptedIffHandler
    /\ http.line # 56
    /\ pc \notin {"idle", "responded"} => handler # "none"

\* C8 witness: a request with a message and an unsupported model was refused
C8_Witness ==
    /\ pc = "responded"
    /\ req.message = Str(<<"h", "i">>)
    /\ req.model = Str("gpt-4o")
    /\ http.status = 400

\* C9: whenever the execution of a requested tool raised internally, the
\* weather_data event of that call is in the stream, right after its
\* tool_call, and its data carries both an error and an error_code field.
C9_RaisedToolHasErrorCode ==
    \A i \in DOMAIN frames :
        /\ (frames[i].type = "tool_call" /\ i < Len(frames)) =>
               frames[i + 1].type = "weather_data"
        /\ (frames[i].type = "weather_data"
               /\ frames[i].data.kind \in {"exec_failed", "unknown_error"}) =>
               {"error", "error_code"} \subseteq frames[i].data.fields

\* arguments _execute_tool may be given
AnyArgs == {Map(ks) : ks \in SUBSET {"city", "units", "days", "zip"}}

\* the handled call and whether its name is a declared tool
CurrentCall == response.tool_calls[k]

\* _execute_tool on every name that is no tool, with every arguments mapping
UnknownNamesAnswered ==
    \A name \in ToolNames \ KnownTools, args \in AnyArgs, u \in Upstreams :
        LET r == ExecuteTool(name, args, u)
        IN  /\ ~r.raised
            /\ {"error", "available_functions"} \subseteq r.fields
            /\ r.available = KnownTools

\* C10: _execute_tool with a function name that is no declared tool returns,
\* for every arguments mapping, an error result that lists the known tool
\* names, and does not raise.
C10_UnknownToolStructuredError ==
    /\ UnknownNamesAnswered
    /\ (pc = "tool_append" /\ CurrentCall.name \notin KnownTools) =>
           /\ ~curResult.raised
           /\ "error" \in curResult.fields
           /\ curResult.available = KnownTools
           /\ frames[Len(frames)].data = curResult

\* C10 witness: the result of a call of get_time was sent to the client
C10_Witness ==
    /\ pc = "tool_append"
    /\ CurrentCall.name = "get_time"
    /\ frames[Len(frames)].type = "weather_data"
    /\ frames[Len(frames)].data.kind = "unknown_function"

\* a result dictionary that reports a failure
IsError(res) == "error" \in res.fields

\* every requested call has arguments that decode to a mapping
AllDecoded == \A i \in DOMAIN response.tool_calls : response.tool_calls[i].args.json = "map"

\* the handler left the tool loop and the commentary behind
TurnEnded == pc \in {"finally", "done", "closed"}

ToolFailure(t) ==
    \/ ~t.upstream.answered
    \/ t.upstream.status # 200
    \/ t.upstream.body # "complete"
    \/ t.name = "get_weather_forecast" /\ ~t.days.int

\* C11: get_current_weather and get_weather_forecast never raise: every
\* failure inside them (transport error or timeout, non-200 status, malformed
\* payload, missing field) is returned as a result containing both `error`
\* and `error_code`.
C11_ToolsNeverRaise ==
    tool.called =>
        /\ ~tool.result.raised
        /\ ToolFailure(tool) => {"error", "error_code"} \subseteq tool.result.fields
        /\ ~ToolFailure(tool) => tool.result.kind = "ok"

\* a payload without a field the tool reads came back as an error result
C11_Witness ==
    /\ tool.called
    /\ tool.name = "get_current_weather"
    /\ tool.upstream = Answer(200, "missing_field")
    /\ tool.result.kind = "unknown_error"

(***************************************************************************)
(* Properties of the ContextManager.                                       *)
(***************************************************************************)
\* this step is a call of the method op on an initialised state
Calls(op) ==
    /\ lastOp'.op = op
    /\ lastOp'.n = lastOp.n + 1
    /\ ctxState.init

\* branches of a call that end in an exception
RaisingBranches ==
    {"no_state", "raised", "no_start_time", "message_refused", "message_failed",
     "tool_call_failed"}

NothingWritten == UNCHANGED <<conversations, dbMessages, dbToolCalls>>

\* C13: resolve_pending_tool_call invoked when no tool call is pending is a
\* no-op: the tool-call list, the pending slot and every other field of the
\* ConversationState are unchanged; a second resolve_pending_tool_call without
\* an intervening set_pending_tool_call appends nothing.
C13_ResolveWithoutPendingIsNoOp ==
    [][/\ (Calls("resolve_pending_tool_call") /\ ctxState.pending_tool_call = NoPending)
           => (ctxState' = ctxState /\ NothingWritten)
       /\ (Calls("resolve_pending_tool_call") /\ lastOp.op = "resolve_pending_tool_call")
           => ctxState'.tool_calls = ctxState.tool_calls]_vars

\* C13 witness: a resolve found nothing pending after a call had been recorded
C13_Witness ==
    /\ lastOp.op = "resolve_pending_tool_call"
    /\ lastOp.branch = "no_pending"
    /\ Len(ctxState.tool_calls) = 1
    /\ ctxState.pending_tool_call = NoPending

\* C14: finalize_assistant_response on a ConversationState with no bound
\* conversation id returns no id, does not raise, persists no message and no
\* tool call, and leaves the state (its tool-call list included) unchanged.
C14_FinalizeUnboundIsNoOp ==
    [][(Calls("finalize_assistant_response") /\ ctxState.conversation_id = 0)
           => /\ lastOp'.ret = 0
              /\ lastOp'.branch \notin RaisingBranches
              /\ ctxState' = ctxState
              /\ NothingWritten]_vars

\* C14 witness: finalize returned on a state without conversation id that
\* holds a tool-call record and response text, and nothing was written
C14_Witness ==
    /\ lastOp.op = "finalize_assistant_response"
    /\ lastOp.branch = "unbound"
    /\ ctxState.conversation_id = 0
    /\ Len(ctxState.tool_calls) = 1
    /\ ctxState.response_content # <<>>
    /\ dbMessages = <<>>
    /\ dbToolCalls = <<>>

\* the message row a call wrote, when it wrote one
NewMessageRows == SubSeq(dbMessages', Len(dbMessages) + 1, Len(dbMessages'))

\* C19: finalize_assistant_response on a state with a bound conversation id
\* persists one assistant message, then every record of the state's tool-call
\* list, in list order, each keyed to the id of that message, then empties the
\* list and returns the message id; the number of tool-call records persisted
\* equals the length of the list before the call.
C19_FinalizePersistsTurn ==
    [][(Calls("finalize_assistant_response") /\ ctxState.conversation_id # 0)
           => LET id == Len(dbMessages) + 1
                  n == Len(ctxState.tool_calls)
              IN  /\ NewMessageRows = <<AssistantRow(ctxState, FALSE)>>
                  /\ Len(dbToolCalls') = Len(dbToolCalls) + n
                  /\ dbToolCalls' = dbToolCalls \o
                                    [i \in 1..n |-> ToolCallRow(id, ctxState.tool_calls[i])]
                  /\ ctxState'.tool_calls = <<>>
                  /\ lastOp'.ret = id]_vars

C16_OneConversationEveryCallSucceeds ==
    /\ \A i, j \in DOMAIN conversations :
           conversations[i] = conversations[j] => i = j
    /\ \A t \in Threads :
           /\ threads[t].last # "raised"
           /\ threads[t].last = "started" =>
                  /\ threads[t].ret \in DOMAIN conversations
                  /\ conversations[threads[t].ret] = threads[t].sid
    /\ \A t, u \in Threads :
           (threads[t].last = "started" /\ threads[u].last = "started"
            /\ threads[t].sid = threads[u].sid) => threads[t].ret = threads[u].ret

\* C17: the ConversationState of one in-flight request is never written by
\* another concurrent request: under any interleaving of two requests'
\* ContextManager calls, the response text, the tool-call list and the pending
\* slot of each request hold only what that request itself recorded, and a
\* request that has just started its conversation has a fresh state.
C17_StateOwnedByItsRequest ==
    \A t \in Threads :
        threads[t].last = "started" =>
            LET state == ContextGet(conversation_context, t)
            IN  /\ state.init
                /\ state.session_id = threads[t].sid
                /\ state.conversation_id = threads[t].ret
                /\ state.response_content = Flatten(threads[t].deltas)
                /\ state.tool_calls = threads[t].records
                /\ state.pending_tool_call = threads[t].pending

\* C17 witness: two requests of the same session are in flight, each holding
\* its own text, and one holds a record while the other has a call pending
C17_Witness ==
    /\ \A t \in Threads : threads[t].last = "started" /\ threads[t].sid = "s1"
    /\ conversation_context[1].response_content = <<"a">>
    /\ conversation_context[2].response_content = <<"b">>
    /\ Len(conversation_context[1].tool_calls) = 1
    /\ conversation_context[2].pending_tool_call = PendingOf(2)

(***************************************************************************)
(* Properties of the evaluation runs.                                      *)
(***************************************************************************)
EvaluationsOf(id, model) ==
    {i \in DOMAIN dbEvaluations :
        dbEvaluations[i].message_id = id /\ dbEvaluations[i].evaluator_model = model}

\* C18: after any sequence of evaluation runs, overlapping background runs
\* included, every assistant message has at most one evaluation per
\* evaluator; evaluate_message on an already evaluated message stores nothing
\* and returns no evaluation.
C18_AtMostOneEvaluationPerMessage ==
    /\ \A id \in DOMAIN dbMessages : Cardinality(EvaluationsOf(id, EvaluatorModel)) <= 1
    /\ \A r \in Runs :
           evalRuns[r].last.evaluated =>
               /\ ~evalRuns[r].last.stored
               /\ evalRuns[r].last.ret = "none"

(***************************************************************************)
(* The client disconnects (SpecDisconnect).                                *)
(***************************************************************************)
\* the stream was cut before the `done` event, while stream_chat() was live
CutBeforeDone ==
    /\ pc = "disconnected"
    /\ closing.at \notin {"done", "generate_failed"}

\* C15: when the consumer stops pulling the event sequence before `done`
\* (after a tool_call, after a weather_data, between text_delta events),
\* closing the generator of the event sequence completes without raising.
C15_CloseBeforeDoneDoesNotRaise ==
    CutBeforeDone => closing.stream_chat = "returned"

(***************************************************************************)
(* The pending slot of the ConversationState (SpecCtx).                    *)
(***************************************************************************)
\* C21: a tool call set pending is resolved into a ToolCallRecord before
\* another tool call is set pending: set_pending_tool_call never replaces a
\* pending call, so no pending call is dropped without a record.
C21_PendingResolvedBeforeNextIsSet ==
    [][Calls("set_pending_tool_call") =>
           \/ ctxState.pending_tool_call = NoPending
           \/ Len(ctxState'.tool_calls) = Len(ctxState.tool_calls) + 1]_vars

(***************************************************************************)
(* The conversations table (SpecDb).                                       *)
(***************************************************************************)
\* every row is still there, with the attributes it was stored with
RowsKept ==
    /\ Len(dbConversations') >= Len(dbConversations)
    /\ \A i \in DOMAIN dbConversations :
           [dbConversations'[i] EXCEPT !.last_activity = 0]
               = [dbConversations[i] EXCEPT !.last_activity = 0]

\* C22: the streaming path never deletes a conversation record and changes
\* no attribute of it other than last_activity: get_or_create_conversation
\* for an existing session id leaves the row as first stored, even when called
\* with another address and user agent, and create_message changes only
\* last_activity.
C22_ConversationRowsOnlyTouched ==
    [][/\ RowsKept
       /\ (lastOp'.op = "get_or_create_conversation" /\ lastOp'.branch # "created")
           => dbConversations' = dbConversations
       /\ lastOp'.op = "create_message"
           => Len(dbConversations') = Len(dbConversations)]_vars

\* C22 witness: the row of session "s1" was looked up with another address and
\* user agent after a message had renewed its last_activity, and it holds the
\* address and the user agent it was created with
C22_Witness ==
    /\ lastOp.op = "get_or_create_conversation"
    /\ lastOp.branch = "found_other_values"
    /\ lastOp.ret = 1
    /\ dbConversations[1].user_ip = "ip1"
    /\ dbConversations[1].user_agent = "agent1"
    /\ dbConversations[1].last_activity > dbConversations[1].created_at

(***************************************************************************)
(* The order of the external calls of one request (Spec).                  *)
(***************************************************************************)
\* the step executes the tool of call k
ExecutesTool == pc = "tool_exec" /\ pc' # pc

\* the step makes a model call
CallsModel == modelCalls' = modelCalls + 1

\* the frames so far are the tool_call and weather_data events of the first n
\* calls, in order
ToolEventsDelivered(n) ==
    /\ Len(frames) >= 2 * n
    /\ \A i \in 1..n :
           /\ frames[2 * i - 1] = FormatSSE(ToolCallEvent(response.tool_calls[i]))
           /\ frames[2 * i].type = "weather_data"

\* C23: within one request the model calls and the tool executions are
\* sequential and follow the frames delivered: a step makes at most one
\* external call; the tool of call k is executed only after its tool_call
\* frame was delivered, and after the weather_data frame of call k-1; the
\* commentary model call is made only after the weather_data frame of the
\* last call.
C23_ExternalCallsSequential ==
    [][/\ ~(ExecutesTool /\ CallsModel)
       /\ modelCalls' \in {modelCalls, modelCalls + 1}
       /\ ExecutesTool =>
              /\ Len(frames) = 2 * k - 1
              /\ ToolEventsDelivered(k - 1)
              /\ LastFrame = FormatSSE(ToolCallEvent(response.tool_calls[k]))
              /\ Len(results) = k - 1
       /\ (CallsModel /\ modelCalls > 0) =>
              /\ HasToolCalls(response)
              /\ ToolEventsDelivered(NumCalls)
              /\ Count("weather_data") = NumCalls
              /\ Len(results) = NumCalls
              /\ \E i \in DOMAIN frames :
                     i > 2 * NumCalls /\ frames[i].type = "text_start"]_vars

\* C23 witness: two tool calls were executed one after the other and the
\* commentary call was made after the second weather_data frame
C23_Witness ==
    /\ pc = "commentary_stream"
    /\ NumCalls = 2
    /\ modelCalls = 2
    /\ Len(results) = 2
    /\ frames[1].type = "tool_call"
    /\ frames[2].type = "weather_data"
    /\ frames[3].type = "tool_call"
    /\ frames[4].type = "weather_data"
    /\ frames[5].type = "text_start"

(***************************************************************************)
(* Failures of finalize_assistant_response (SpecCtx).                      *)
(***************************************************************************)
\* branches of finalize_assistant_response that end in the exception of a
\* storage write
StorageFailures == {"message_refused", "message_failed", "tool_call_failed"}

\* C24: a storage write failure during finalization (the assistant message or
\* any tool-call record) does not leave finalize_assistant_response as an
\* exception.
C24_WriteFailureStaysInFinalize ==
    [][Calls("finalize_assistant_response") => lastOp'.branch \notin StorageFailures]_vars

(***************************************************************************)
(* The record of a resolved tool call (SpecCtx).                           *)
(***************************************************************************)
\* the record a resolve appended
NewRecord == ctxState'.tool_calls[Len(ctxState'.tool_calls)]

TextChunks == SelectSeq(arrived, LAMBDA t : t # <<>>)

\* the commentary is requested at most once, after every tool call has its
\* result, and it is requested when the tool loop got that far
CommentaryOnceAfterTools ==
    /\ modelCalls <= 2
    /\ Count("text_start") <= 1
    /\ (prompted \/ arrived # <<>> \/ modelCalls = 2) =>
           /\ prompted
           /\ Len(results) = NumCalls
           /\ Count("weather_data") = NumCalls
    /\ (StreamOver /\ Len(results) = NumCalls) => (prompted /\ modelCalls = 2)

\* C26 as stated: in the commentary turn one text_delta event is emitted per
\* chunk received from the model.
C26_OneDeltaPerChunk ==
    HasToolCalls(response) =>
        /\ CommentaryOnceAfterTools
        /\ Len(DeltaFrames) = Len(arrived)
        /\ ConcatDeltas(DeltaFrames) = Join(arrived)

\* C26, amended: the commentary turn is issued once and only after all tool
\* calls have resolved; one text_delta event is emitted per received chunk
\* that carries text, in arrival order, and none for a chunk without text, so
\* the concatenation of the commentary deltas is the concatenation of the
\* chunks' text.
C26_OneDeltaPerTextChunk ==
    HasToolCalls(response) =>
        /\ CommentaryOnceAfterTools
        /\ DeltaFrames = [i \in 1..Len(TextChunks) |->
                              FormatSSE(TextDelta(Str(TextChunks[i])))]
        /\ ConcatDeltas(DeltaFrames) = Join(arrived)

\* C26 witness: a finished commentary whose first chunk had no text and whose
\* second chunk was sent as the only delta
C26_Witness ==
    /\ StreamOver
    /\ HasToolCalls(response)
    /\ arrived = <<<<>>, <<"d">>>>
    /\ Len(DeltaFrames) = 1
    /\ DeltaFrames[1].delta.str = <<"d">>

(***************************************************************************)
(* The user message of the turn (Spec).                                    *)
(***************************************************************************)
UserRows == SelectSeq(dbMessages, LAMBDA row : row.role = "user")

\* the user message of the request is stored, once, under its conversation
UserMessageStored == UserRows = <<MessageRow(ctxState.conversation_id, "user", message)>>

\* the write of the user message failed before its commit: generate() reported
\* it and nothing else happened
UserMessageRefused ==
    /\ UserRows = <<>>
    /\ pc \in {"generate_failed", "closed"}
    /\ modelCalls = 0
    /\ frames = <<FormatSSE(ErrorEvent("Streaming error"))>>

\* C27 as stated: the user message of a turn is persisted exactly once, under
\* the request's conversation id, before the first model call and before any
\* event is emitted.
C27_UserMessageBeforeCallsAndEvents ==
    /\ Len(UserRows) <= 1
    /\ (modelCalls > 0 \/ frames # <<>>) => UserMessageStored

\* C27, amended: the user message of a turn is persisted at most once; it is
\* persisted, under the request's conversation id, before the first model
\* call and before any event of the handler, also when the model call fails;
\* when its write fails nothing is persisted, no model call is made and the
\* one event emitted is the error that reports the failure.
C27_UserMessageBeforeCallsUnlessRefused ==
    /\ Len(UserRows) <= 1
    /\ modelCalls > 0 => UserMessageStored
    /\ frames # <<>> => (UserMessageStored \/ UserMessageRefused)
    /\ pc \in {"first_turn", "plain_text", "tool_loop", "tool_exec", "tool_append",
               "commentary", "commentary_call", "commentary_stream", "finally",
               "done"} => UserMessageStored

\* C27 witness: the first model call failed and the stream ended; the user
\* message is stored once
C27_Witness ==
    /\ StreamOver
    /\ modelCalls = 1
    /\ ~response.received
    /\ frames[1] = FormatSSE(ErrorEvent(ProviderError(handler)))
    /\ UserMessageStored

(***************************************************************************)
(* Finalization without a response start time (SpecCtx).                   *)
(***************************************************************************)
\* C28: finalize_assistant_response on a state with a bound conversation id
\* persists something only if start_assistant_response was called earlier in
\* the request: when the response start time was never set the call fails
\* before any write, no assistant message and no tool-call record is
\* persisted and the tool-call list is left unchanged.
C28_FinalizeNeedsStartedResponse ==
    [][/\ (Calls("finalize_assistant_response") /\ ctxState.conversation_id # 0
           /\ ctxState.response_start_time = 0)
           => /\ lastOp'.branch = "no_start_time"
              /\ lastOp'.ret = 0
              /\ NothingWritten
              /\ ctxState'.tool_calls = ctxState.tool_calls
              /\ ctxState' = ctxState
       /\ (Calls("finalize_assistant_response") /\ ~NothingWritten)
           => ctxState.response_start_time # 0
       /\ (ctxState.response_start_time = 0 /\ ctxState'.response_start_time # 0)
           => lastOp'.op = "start_assistant_response"
       /\ lastOp'.op \in {"start_conversation", "_set_state"} /\ ctxState' # ctxState
           => ctxState'.response_start_time = 0]_vars

\* C28 witness: finalize failed on a bound state that holds a tool-call record
\* and never began a response; no assistant row and no tool-call row exists
C28_Witness ==
    /\ lastOp.op = "finalize_assistant_response"
    /\ lastOp.branch = "no_start_time"
    /\ ctxState.conversation_id # 0
    /\ Len(ctxState.tool_calls) = 1
    /\ \A i \in DOMAIN dbMessages : dbMessages[i].role # "assistant"
    /\ dbToolCalls = <<>>

(***************************************************************************)
(* Tool-call records across finalizations (SpecCtx).                       *)
(***************************************************************************)
\* the call is a finalize_assistant_response whose writes all succeeded
FinalizeSucceeds ==
    /\ Calls("finalize_assistant_response")
    /\ lastOp'.branch = "persisted"

\* C29: across finalize_assistant_response calls whose storage writes all
\* succeed each ToolCallRecord is persisted at most once: a finalize persists
\* the records of the list under the id of the message it wrote, an id no
\* earlier row is keyed to, and empties the list; a repeated finalize without
\* new resolved tool calls persists a further assistant message and no
\* tool-call record; records enter the list one at a time, by a resolve, and
\* tool-call rows are written by finalize only.
C29_RecordsPersistedOnce ==
    [][/\ FinalizeSucceeds =>
              /\ lastOp'.ret = Len(dbMessages) + 1
              /\ NewMessageRows = <<AssistantRow(ctxState, FALSE)>>
              /\ \A i \in DOMAIN dbToolCalls : dbToolCalls[i].message_id < lastOp'.ret
              /\ dbToolCalls' = dbToolCalls \o
                     [i \in 1..Len(ctxState.tool_calls) |->
                          ToolCallRow(lastOp'.ret, ctxState.tool_calls[i])]
              /\ ctxState'.tool_calls = <<>>
       /\ (FinalizeSucceeds /\ lastOp.op = "finalize_assistant_response"
           /\ lastOp.branch = "persisted")
              => /\ dbToolCalls' = dbToolCalls
                 /\ Len(dbMessages') = Len(dbMessages) + 1
       /\ dbToolCalls' # dbToolCalls => lastOp'.op = "finalize_assistant_response"
       /\ Len(ctxState'.tool_calls) > Len(ctxState.tool_calls)
              => /\ lastOp'.op = "resolve_pending_tool_call"
                 /\ Len(ctxState'.tool_calls) = Len(ctxState.tool_calls) + 1]_vars

\* C29 witness: a second finalize followed a finalize that had persisted one
\* record: two assistant messages, the record keyed to the first only
C29_Witness ==
    /\ lastOp.op = "finalize_assistant_response"
    /\ lastOp.branch = "persisted"
    /\ lastOp.ret = 2
    /\ Len(dbMessages) = 2
    /\ dbMessages[1].role = "assistant"
    /\ dbMessages[2].role = "assistant"
    /\ Len(dbToolCalls) = 1
    /\ dbToolCalls[1].message_id = 1
    /\ ctxState.tool_calls = <<>>

(***************************************************************************)
(* Tool-call arguments that are no mapping, ChatGPT handler (Spec).        *)
(***************************************************************************)
\* the arguments of call i do not decode into a mapping: the string is no
\* JSON, or it is JSON of another type
Undecodable(i) == response.tool_calls[i].args.json # "map"

\* the first call whose arguments do not decode into a mapping
FirstUndecodable ==
    CHOOSE i \in DOMAIN response.tool_calls :
        /\ Undecodable(i)
        /\ \A j \in 1..(i - 1) : ~Undecodable(j)

\* C30: in the ChatGPT handler, when the arguments of tool call k cannot be
\* decoded into a mapping, the events of calls 1..k-1 stay in the stream, no
\* tool_call or weather_data event is emitted for calls k..N, no result is
\* taken for them, no commentary turn is issued, and the stream goes on with
\* exactly one error event followed by done.
C30_UndecodableArgumentsEndTheTurn ==
    (handler = "chatgpt" /\ \E i \in DOMAIN response.tool_calls : Undecodable(i)) =>
        /\ Count("tool_call") <= FirstUndecodable - 1
        /\ Count("weather_data") <= FirstUndecodable - 1
        /\ Len(results) <= FirstUndecodable - 1
        /\ ~prompted
        /\ modelCalls = 1
        /\ Count("text_start") = 0
        /\ StreamOver =>
               /\ ToolEventsDelivered(FirstUndecodable - 1)
               /\ Len(frames) = 2 * FirstUndecodable
               /\ frames[2 * FirstUndecodable - 1].type = "error"
               /\ frames[2 * FirstUndecodable].type = "done"

====
